---- MODULE Spec2Model ----
(***************************************************************************)
(* GoodNewsEveryone: the incremental feed fetch/filter/cache pipeline      *)
(* (src/src/aggregator.py), the background refresh worker and the          *)
(* deduplication pass (src/src/main.py, src/src/bootstrap_cache.py) and    *)
(* the removed-links list (src/src/shared_data.py).                        *)
(*                                                                         *)
(* A store (Python dict topic -> list of articles, insertion ordered) is a *)
(* sequence of records [topic, articles] with pairwise distinct topics.    *)
(* Scores are scaled integers: sentiment_score * 100, inspiration * 10.    *)
(***************************************************************************)
EXTENDS Integers, Sequences, FiniteSets, TLC

VARIABLES
    cache_file,                 \* static/articles_cache.json: [state: "missing" | "corrupt" | "ok", store]
    removed_file,               \* removed_articles.txt: the sequence of its lines (links)
    removed_article_links,      \* shared_data.removed_article_links: the set the name is bound to now
    agg_removed_article_links,  \* aggregator.removed_article_links: the set object bound by the import
    same_object,                \* TRUE while both names are bound to one and the same set object
    cache_refresh_running,      \* main.cache_refresh_running
    pc,                         \* per refresh thread: its position in refresh_cache_worker
    articles_by_topic,          \* per thread: the local store of fetch_and_filter_feeds
    url_index,                  \* per thread: index of the next feed of the for loop
    last_feed,                  \* per thread: what the log says of the feed just finished
    loaded,                     \* per thread: the store as it was right after the cache load
    removed_at_start,           \* per thread: links the file held at the run's load_removed_articles
    added_before,               \* per thread: links add_removed_article_link had accepted by then
    admitted,                   \* per thread: links appended to the store during this run
    handler,                    \* per admin request: [pc, link], where add_removed_article_link is
    add_ok,                     \* links for which add_removed_article_link returned True
    dd_in,                      \* deduplicate_articles: the store passed in
    dd_out,                     \* deduplicate_articles: [done, store], the store returned once done
    final_write,                \* per thread: how the final save of lines 619-627 went ("none" before it)
    call_in,                    \* a function called on its own: [fn, ...], its arguments and environment
    call_out,                   \* [done, ...]: what that call returned
    permanent_cache,            \* data/article_cache.json: [state, store, last_fetched]
    main_articles_by_topic,     \* main.articles_by_topic, the store the web layer serves
    last_updated,               \* main.last_updated: "none" or a time stamp
    caller                      \* per thread: who called fetch_and_filter_feeds ("worker" | "bootstrap")

vars == <<cache_file, removed_file, removed_article_links, agg_removed_article_links,
          same_object, cache_refresh_running, pc, articles_by_topic, url_index,
          last_feed, loaded, removed_at_start, added_before, admitted, handler,
          add_ok, dd_in, dd_out, final_write, call_in, call_out,
          permanent_cache, main_articles_by_topic, last_updated, caller>>

mainVars == <<permanent_cache, main_articles_by_topic, last_updated, caller>>

pipeVars == <<cache_file, removed_file, removed_article_links, agg_removed_article_links,
              same_object, cache_refresh_running, pc, articles_by_topic, url_index,
              last_feed, loaded, removed_at_start, added_before, admitted, handler,
              add_ok, final_write, permanent_cache, main_articles_by_topic, last_updated,
              caller>>

dedupVars == <<dd_in, dd_out>>

callVars == <<call_in, call_out>>

Threads == {"t1", "t2"}

\* The admin requests that can be under way together, and the one followed next to
\* the refresh threads.
Requests == {"r1", "r2"}

AdminRequest == "r1"

ThreadNo(t) == IF t = "t1" THEN 1 ELSE 2

(***************************************************************************)
(* Program constants.                                                      *)
(***************************************************************************)
POSITIVE_THRESHOLD == 80

(***************************************************************************)
(* Generic helpers on sequences and stores.                                *)
(***************************************************************************)
Range(s) == {s[i] : i \in 1..Len(s)}

EmptyStore == <<>>

Keys(st) == {st[i].topic : i \in 1..Len(st)}

KeyIndex(st, t) == CHOOSE i \in 1..Len(st) : st[i].topic = t

Bucket(st, t) == IF t \in Keys(st) THEN st[KeyIndex(st, t)].articles ELSE <<>>

SetBucket(st, t, arts) ==
    IF t \in Keys(st)
    THEN [st EXCEPT ![KeyIndex(st, t)].articles = arts]
    ELSE Append(st, [topic |-> t, articles |-> arts])

AllArticles(st) == UNION {Range(st[i].articles) : i \in 1..Len(st)}

Links(st) == {a.link : a \in AllArticles(st)}

TotalArticles(st) ==
    LET RECURSIVE Sum(_)
        Sum(i) == IF i = 0 THEN 0 ELSE Len(st[i].articles) + Sum(i - 1)
    IN Sum(Len(st))

FileOk(st) == [state |-> "ok", store |-> st]

FileMissing == [state |-> "missing", store |-> EmptyStore]

FileCorrupt == [state |-> "corrupt", store |-> EmptyStore]

(***************************************************************************)
(* The feeds. An entry carries what the library calls of the entry loop    *)
(* return for it: the compound sentiment of "title. summary", whether a    *)
(* negative / positive keyword matches, the topic get_topic_and_icon       *)
(* picks, the composite of score_inspiration_with_llm, and whether         *)
(* parse_date or the image extraction raises on it.                        *)
(***************************************************************************)
Entry(title, link, neg, sent, poskw, topic, insp, pub, raises) ==
    [title |-> title, link |-> link, neg |-> neg, sentiment_score |-> sent,
     poskw |-> poskw, topic_name |-> topic, inspiration_score |-> insp,
     published |-> pub, raises |-> raises]

FEED_URLS == <<"f1", "f2">>

FeedEntries(url) ==
    IF url = "f1"
    THEN << Entry(<<"t", "1">>, "L1", FALSE, 85, FALSE, "science", 92, 3, "none"),
            Entry(<<"t", "2">>, "L2", FALSE, 90, TRUE, "science", 95, 4, "date"),
            Entry(<<"t", "3">>, "L3", FALSE, 10, TRUE, "health", 65, 5, "none") >>
    ELSE << Entry(<<"t", "1">>, "L1", FALSE, 85, FALSE, "science", 92, 3, "none"),
            Entry(<<"t", "5">>, "L5", TRUE, 95, TRUE, "science", 97, 6, "none"),
            Entry(<<>>, "L6", FALSE, 95, TRUE, "general", 97, 6, "none"),
            Entry(<<"t", "7">>, "L7", FALSE, 20, FALSE, "general", 60, 6, "none"),
            Entry(<<"t", "1">>, "L4", FALSE, 90, FALSE, "health", 95, 1, "none"),
            Entry(<<"t", "8">>, "L8", FALSE, 30, TRUE, "science", 97, 2, "none") >>

Article(title, link, sent, topic, insp, pub, url) ==
    [title |-> title, link |-> link, sentiment_score |-> sent,
     inspiration_score |-> insp, published |-> pub, is_inspirational |-> TRUE,
     topic_name |-> topic, source_feed |-> url]

\* Cache files the program can have left behind: sorted buckets, one link once per bucket.
InitialCaches ==
    { FileMissing,
      FileOk(<< [topic |-> "science",
                 articles |-> << Article(<<"t", "0">>, "L0", 90, "science", 50, 0, "f0") >>] >>) }

InitialRemovedFiles == { << "L8" >> }

\* Links the operator may submit to /admin/remove-article.
RemovableLinks == {"L1"}

\* The removed links when a function is called on its own.
RemovedLinks == {"https://news.example/removed"}

(***************************************************************************)
(* fetch_and_filter_feeds: the entry loop, the sort and the saves.         *)
(***************************************************************************)
B2I(b) == IF b THEN 1 ELSE 0

\* The sort key of lines 596-600, compared as Python compares tuples.
KeyLess(a, b) ==
    \/ B2I(a.is_inspirational) < B2I(b.is_inspirational)
    \/ /\ a.is_inspirational = b.is_inspirational
       /\ a.inspiration_score < b.inspiration_score
    \/ /\ a.is_inspirational = b.is_inspirational
       /\ a.inspiration_score = b.inspiration_score
       /\ a.published < b.published

\* list.sort(key=..., reverse=True): descending and stable.
RECURSIVE InsertDesc(_, _)
InsertDesc(s, x) ==
    IF s = <<>> THEN <<x>>
    ELSE IF KeyLess(Head(s), x) THEN <<x>> \o s
    ELSE <<Head(s)>> \o InsertDesc(Tail(s), x)

RECURSIVE SortDesc(_)
SortDesc(s) ==
    IF s = <<>> THEN <<>>
    ELSE InsertDesc(SortDesc(SubSeq(s, 1, Len(s) - 1)), s[Len(s)])

\* Mutant of SortBucket: the sort is left out.
SortBucketSkipped(s) == s

SortBucket(s) == SortDesc(s)

SortAll(st) == [i \in 1..Len(st) |-> [st[i] EXCEPT !.articles = SortBucket(st[i].articles)]]

\* Mutant of AlreadyExists: the test of line 583 is left out.
AlreadyExistsNever(st, topic, link) == FALSE

\* Line 583: an article with this link is already in the topic's bucket.
AlreadyExists(st, topic, link) == \E a \in Range(Bucket(st, topic)) : a.link = link

\* Mutant of MergeArticle: the bucket is assigned instead of appended to.
MergeArticleReplacing(st, article) ==
    [abt |-> SetBucket(st, article.topic_name, <<article>>), added |-> 1]

\* Lines 579-589: create the bucket if needed, skip a known link, append otherwise.
MergeArticle(st, article) ==
    LET topic == article.topic_name
        st1 == IF topic \in Keys(st) THEN st ELSE SetBucket(st, topic, <<>>)
    IN IF AlreadyExists(st1, topic, article.link)
       THEN [abt |-> st1, added |-> 0]
       ELSE [abt |-> SetBucket(st1, topic, Append(Bucket(st1, topic), article)), added |-> 1]

\* Line 484 reads the name removed_article_links of the aggregator module.
IsRemoved(link, removed) == link \in removed

\* Line 491 and 494 (classify_with_llm returns True).
IsPositive(e) == (e.sentiment_score > POSITIVE_THRESHOLD \/ e.poskw) /\ TRUE

\* Lines 477-589 for one entry: [abt, added, raised].
ProcessEntry(st, e, removed, url) ==
    IF e.raises = "date" THEN [abt |-> st, added |-> 0, raised |-> TRUE]
    ELSE IF e.title = <<>> \/ e.link = "" THEN [abt |-> st, added |-> 0, raised |-> FALSE]
    ELSE IF IsRemoved(e.link, removed) THEN [abt |-> st, added |-> 0, raised |-> FALSE]
    ELSE IF e.neg THEN [abt |-> st, added |-> 0, raised |-> FALSE]
    ELSE IF ~IsPositive(e) THEN [abt |-> st, added |-> 0, raised |-> FALSE]
    ELSE IF e.raises = "image" THEN [abt |-> st, added |-> 0, raised |-> TRUE]
    ELSE LET m == MergeArticle(st, Article(e.title, e.link, e.sentiment_score, e.topic_name,
                                           e.inspiration_score, e.published, url))
         IN [abt |-> m.abt, added |-> m.added, raised |-> FALSE]

\* Lines 476-589: the loop over feed.entries from entry i on. An exception leaves
\* the loop at once, with the entries appended so far still in the store.
RECURSIVE ProcessEntries(_, _, _, _, _, _)
ProcessEntries(st, entries, i, removed, url, count) ==
    IF i > Len(entries) THEN [abt |-> st, feed_new_count |-> count, raised |-> FALSE]
    ELSE LET r == ProcessEntry(st, entries[i], removed, url)
         IN IF r.raised
            THEN [abt |-> r.abt, feed_new_count |-> count, raised |-> TRUE]
            ELSE ProcessEntries(r.abt, entries, i + 1, removed, url, count + r.added)

\* open(CACHE_PATH, 'w') + json.dump: the whole store replaces the file; a failed
\* write leaves the old file (open failed) or a truncated one (dump failed).
WriteOutcomes == {"ok", "open_failed", "dump_failed"}

\* Mutant of WriteCache: no write reaches the file.
WriteCacheLost(file, st, outcome) == file

\* Lines 606-614 and 620-627: open(..., 'w') and json.dump; a failure before the file
\* is opened leaves it as it was, one during the dump leaves a torn file.
WriteCache(file, st, outcome) ==
    IF outcome = "ok" THEN FileOk(st)
    ELSE IF outcome = "open_failed" THEN file
    ELSE FileCorrupt

\* Lines 454-462: the cache load.
LoadCache(file) == IF file.state = "ok" THEN file.store ELSE EmptyStore

NoFeed == [url_index |-> 0, error |-> "none", added |-> 0, wrote |-> "none"]

NoRequest == [pc |-> "idle", link |-> ""]

DedupIdle == [done |-> FALSE, store |-> EmptyStore]

NoCall == [fn |-> "none"]

NoReturn == [done |-> FALSE]

PermanentMissing == [state |-> "missing", store |-> EmptyStore, last_fetched |-> "none"]

\* datetime.utcnow() / datetime.now(): time stamps are kept up to one distinction, a
\* stamp taken now differs from the stamp it replaces.
NextStamp(stamp) == IF stamp = "s0" THEN "s1" ELSE "s0"

\* main.py lines 148-153: open(PERMANENT_CACHE_FILE, "w") and json.dump of
\* {"last_fetched", "articles"}; the outcomes are those of WriteCache.
WritePermanent(file, st, stamp, outcome) ==
    IF outcome = "ok" THEN [state |-> "ok", store |-> st, last_fetched |-> stamp]
    ELSE IF outcome = "open_failed" THEN file
    ELSE [state |-> "corrupt", store |-> EmptyStore, last_fetched |-> "none"]

\* initialize_app, main.py lines 399-420: what the globals articles_by_topic and
\* last_updated are after the start, [store, stamp]. A file that exists but does not
\* load leaves the globals as the module set them ({} and None).
StartupGlobals(permanent, file) ==
    IF permanent.state = "ok"
    THEN [store |-> permanent.store, stamp |-> permanent.last_fetched]
    ELSE IF permanent.state = "corrupt" THEN [store |-> EmptyStore, stamp |-> "none"]
    ELSE IF file.state = "ok" THEN [store |-> file.store, stamp |-> NextStamp("none")]
    ELSE [store |-> EmptyStore, stamp |-> "none"]

\* The process right after start: shared_data was imported (its line 112 loaded the
\* file), aggregator's import bound the same set object, and initialize_app set the
\* globals of main.py; there is no permanent cache yet.
Init ==
    /\ cache_file \in InitialCaches
    /\ removed_file \in InitialRemovedFiles
    /\ removed_article_links = Range(removed_file)
    /\ agg_removed_article_links = Range(removed_file)
    /\ same_object = TRUE
    /\ cache_refresh_running = FALSE
    /\ pc = [t \in Threads |-> "idle"]
    /\ articles_by_topic = [t \in Threads |-> EmptyStore]
    /\ url_index = [t \in Threads |-> 0]
    /\ last_feed = [t \in Threads |-> NoFeed]
    /\ loaded = [t \in Threads |-> EmptyStore]
    /\ removed_at_start = [t \in Threads |-> {}]
    /\ added_before = [t \in Threads |-> {}]
    /\ admitted = [t \in Threads |-> {}]
    /\ handler = [r \in Requests |-> NoRequest]
    /\ add_ok = {}
    /\ dd_in = EmptyStore
    /\ dd_out = DedupIdle
    /\ final_write = [t \in Threads |-> "none"]
    /\ call_in = NoCall
    /\ call_out = NoReturn
    /\ permanent_cache = PermanentMissing
    /\ main_articles_by_topic = StartupGlobals(PermanentMissing, cache_file).store
    /\ last_updated = StartupGlobals(PermanentMissing, cache_file).stamp
    /\ caller = [t \in Threads |-> "none"]

\* The state in which a function is called on its own: no refresh thread runs.
InitCalls(calls) ==
    /\ cache_file = FileMissing
    /\ removed_file = <<>>
    /\ removed_article_links = RemovedLinks
    /\ agg_removed_article_links = RemovedLinks
    /\ same_object = TRUE
    /\ cache_refresh_running = FALSE
    /\ pc = [t \in Threads |-> "idle"]
    /\ articles_by_topic = [t \in Threads |-> EmptyStore]
    /\ url_index = [t \in Threads |-> 0]
    /\ last_feed = [t \in Threads |-> NoFeed]
    /\ loaded = [t \in Threads |-> EmptyStore]
    /\ removed_at_start = [t \in Threads |-> {}]
    /\ added_before = [t \in Threads |-> {}]
    /\ admitted = [t \in Threads |-> {}]
    /\ handler = [r \in Requests |-> NoRequest]
    /\ add_ok = {}
    /\ dd_in = EmptyStore
    /\ dd_out = DedupIdle
    /\ final_write = [t \in Threads |-> "none"]
    /\ call_in \in calls
    /\ call_out = NoReturn
    /\ permanent_cache = PermanentMissing
    /\ main_articles_by_topic = EmptyStore
    /\ last_updated = "none"
    /\ caller = [t \in Threads |-> "none"]

(***************************************************************************)
(* shared_data.py: the removed-links list.                                 *)
(***************************************************************************)
\* load_removed_articles: the global name is bound to a NEW set built from the file;
\* a name bound earlier by "from src.shared_data import removed_article_links"
\* keeps the old set object.
load_removed_articles ==
    /\ removed_article_links' = Range(removed_file)
    /\ same_object' = FALSE
    /\ UNCHANGED <<removed_file, agg_removed_article_links>>

\* add_removed_article_link, lines 94-96: the test made before the lock is taken.
AddCheck(r, link) ==
    /\ handler[r].pc = "idle"
    /\ link \notin removed_article_links
    /\ handler' = [handler EXCEPT ![r] = [pc |-> "append", link |-> link]]
    /\ UNCHANGED <<cache_file, removed_file, removed_article_links, agg_removed_article_links,
                   same_object, cache_refresh_running, pc, articles_by_topic, url_index,
                   last_feed, loaded, removed_at_start, added_before, admitted, add_ok, dd_in, dd_out, final_write, call_in, call_out, mainVars>>

\* add_removed_article_link, lines 98-108: under the lock, append the line and add
\* the link to the set the global name is bound to (in place); IOError returns False.
AddAppend(r, io_ok) ==
    /\ handler[r].pc = "append"
    /\ handler' = [handler EXCEPT ![r] = NoRequest]
    /\ IF io_ok
       THEN /\ removed_file' = Append(removed_file, handler[r].link)
            /\ removed_article_links' = removed_article_links \cup {handler[r].link}
            /\ agg_removed_article_links' =
                   IF same_object THEN agg_removed_article_links \cup {handler[r].link}
                   ELSE agg_removed_article_links
            /\ add_ok' = add_ok \cup {handler[r].link}
       ELSE UNCHANGED <<removed_file, removed_article_links, agg_removed_article_links, add_ok>>
    /\ UNCHANGED <<cache_file, same_object, cache_refresh_running, pc, articles_by_topic,
                   url_index, last_feed, loaded, removed_at_start, added_before, admitted, dd_in, dd_out, final_write, call_in, call_out, mainVars>>

(***************************************************************************)
(* main.py: the refresh threads.                                           *)
(***************************************************************************)
StartThread(t) ==
    /\ pc[t] = "idle"
    /\ \A u \in Threads : pc[u] = "idle" => ThreadNo(t) <= ThreadNo(u)
    /\ pc' = [pc EXCEPT ![t] = "started"]
    /\ caller' = [caller EXCEPT ![t] = "worker"]
    /\ UNCHANGED <<cache_file, removed_file, removed_article_links, agg_removed_article_links,
                   same_object, cache_refresh_running, articles_by_topic, url_index,
                   last_feed, loaded, removed_at_start, added_before, admitted, handler,
                   add_ok, dd_in, dd_out, final_write, call_in, call_out,
                   permanent_cache, main_articles_by_topic, last_updated>>

\* refresh_loop, lines 171-174: a thread is started only if the flag reads False.
RefreshLoop(t) ==
    /\ ~cache_refresh_running
    /\ StartThread(t)

\* refresh_articles (/refresh), lines 618-622: a thread is started, the flag is not read.
RefreshRequest(t) ==
    /\ pc[t] = "idle"
    /\ StartThread(t)

\* refresh_cache_worker, line 125.
SetRunning(t) ==
    /\ pc[t] = "started"
    /\ cache_refresh_running' = TRUE
    /\ pc' = [pc EXCEPT ![t] = "load_removed"]
    /\ UNCHANGED <<cache_file, removed_file, removed_article_links, agg_removed_article_links,
                   same_object, articles_by_topic, url_index, last_feed, loaded,
                   removed_at_start, added_before, admitted, handler, add_ok, dd_in, dd_out, final_write, call_in, call_out, mainVars>>

\* refresh_cache_worker, line 131.
WorkerLoadRemoved(t) ==
    /\ pc[t] = "load_removed"
    /\ load_removed_articles
    /\ pc' = [pc EXCEPT ![t] = "fetch_start"]
    /\ UNCHANGED <<cache_file, cache_refresh_running, articles_by_topic, url_index,
                   last_feed, loaded, removed_at_start, added_before, admitted, handler,
                   add_ok, dd_in, dd_out, final_write, call_in, call_out, mainVars>>

\* fetch_and_filter_feeds, line 451: the run starts by loading the removed links.
FetchLoadRemoved(t) ==
    /\ pc[t] = "fetch_start"
    /\ load_removed_articles
    /\ removed_at_start' = [removed_at_start EXCEPT ![t] = Range(removed_file)]
    /\ added_before' = [added_before EXCEPT ![t] = add_ok]
    /\ pc' = [pc EXCEPT ![t] = "load_cache"]
    /\ UNCHANGED <<cache_file, cache_refresh_running, articles_by_topic, url_index,
                   last_feed, loaded, admitted, handler, add_ok,
                   dd_in, dd_out, final_write, call_in, call_out, mainVars>>

\* fetch_and_filter_feeds, lines 453-464.
FetchLoadCache(t) ==
    /\ pc[t] = "load_cache"
    /\ articles_by_topic' = [articles_by_topic EXCEPT ![t] = LoadCache(cache_file)]
    /\ loaded' = [loaded EXCEPT ![t] = LoadCache(cache_file)]
    /\ url_index' = [url_index EXCEPT ![t] = 1]
    /\ admitted' = [admitted EXCEPT ![t] = {}]
    /\ last_feed' = [last_feed EXCEPT ![t] = NoFeed]
    /\ final_write' = [final_write EXCEPT ![t] = "none"]
    /\ pc' = [pc EXCEPT ![t] = "feeds"]
    /\ UNCHANGED <<cache_file, removed_file, removed_article_links, agg_removed_article_links,
                   same_object, cache_refresh_running, removed_at_start, added_before,
                   handler, add_ok, dd_in, dd_out, call_in, call_out, mainVars>>

\* What one pass of the for loop body (lines 467-617) makes of the store:
\* [abt, error, added, write]. parse_ok = FALSE: feedparser.parse raised. error is
\* what line 617 logs: nothing, the exception of the fetch or that of an entry.
FeedResult(st, url, removed, parse_ok) ==
    IF ~parse_ok THEN [abt |-> st, error |-> "parse", added |-> 0, write |-> FALSE]
    ELSE LET r == ProcessEntries(st, FeedEntries(url), 1, removed, url, 0)
         IN IF r.raised
            THEN [abt |-> r.abt, error |-> "entry", added |-> 0, write |-> FALSE]
            ELSE [abt |-> SortAll(r.abt), error |-> "none", added |-> r.feed_new_count,
                  write |-> r.feed_new_count > 0]

\* Mutant of FeedsExhausted: the loop ends after its first pass.
FeedsExhaustedEarly(i) == i > 1

\* Line 467: the for loop over feed_urls ends when every index has been taken.
FeedsExhausted(i) == i > Len(FEED_URLS)

\* fetch_and_filter_feeds, lines 467-617: one feed.
FetchFeed(t, parse_ok, outcome) ==
    /\ pc[t] = "feeds"
    /\ ~FeedsExhausted(url_index[t])
    /\ LET url == FEED_URLS[url_index[t]]
           r == FeedResult(articles_by_topic[t], url, agg_removed_article_links, parse_ok)
       IN /\ articles_by_topic' = [articles_by_topic EXCEPT ![t] = r.abt]
          /\ admitted' = [admitted EXCEPT ![t] =
                 @ \cup {a.link : a \in AllArticles(r.abt) \ AllArticles(articles_by_topic[t])}]
          /\ cache_file' = IF r.write THEN WriteCache(cache_file, r.abt, outcome)
                           ELSE cache_file
          /\ last_feed' = [last_feed EXCEPT ![t] =
                 [url_index |-> url_index[t], error |-> r.error, added |-> r.added,
                  wrote |-> IF r.write THEN outcome ELSE "none"]]
    /\ url_index' = [url_index EXCEPT ![t] = @ + 1]
    /\ UNCHANGED <<removed_file, removed_article_links, agg_removed_article_links,
                   same_object, cache_refresh_running, pc, loaded, removed_at_start,
                   added_before, handler, add_ok, dd_in, dd_out, final_write, call_in, call_out, mainVars>>

\* fetch_and_filter_feeds, lines 619-629: the final save and the return.
FinalSave(t, outcome) ==
    /\ pc[t] = "feeds"
    /\ FeedsExhausted(url_index[t])
    /\ cache_file' = WriteCache(cache_file, articles_by_topic[t], outcome)
    /\ final_write' = [final_write EXCEPT ![t] = outcome]
    /\ pc' = [pc EXCEPT ![t] = "returned"]
    /\ UNCHANGED <<removed_file, removed_article_links, agg_removed_article_links,
                   same_object, cache_refresh_running, articles_by_topic, url_index,
                   last_feed, loaded, removed_at_start, added_before, admitted, handler,
                   add_ok, dd_in, dd_out, call_in, call_out, mainVars>>

\* Mutant of FlagAfterRun: without the finally clause the flag is reset only when
\* the body of the try ends without an exception.
FlagAfterRunNoFinally(raised) == raised

\* main.py lines 159-160: the finally clause sets cache_refresh_running to False
\* whether the body raised or not.
FlagAfterRun(raised) == FALSE

\* refresh_cache_worker, lines 137-160, as far as the pipeline and the removed
\* links go: the thread ends and the flag is reset. Under this specification the
\* globals of main.py and the permanent cache are not followed; WorkerPublish
\* below is the same step with them.
WorkerFinish(t) ==
    /\ pc[t] = "returned"
    /\ caller[t] = "worker"
    /\ cache_refresh_running' = FlagAfterRun(FALSE)
    /\ pc' = [pc EXCEPT ![t] = "idle"]
    /\ caller' = [caller EXCEPT ![t] = "none"]
    /\ articles_by_topic' = [articles_by_topic EXCEPT ![t] = EmptyStore]
    /\ url_index' = [url_index EXCEPT ![t] = 0]
    /\ last_feed' = [last_feed EXCEPT ![t] = NoFeed]
    /\ loaded' = [loaded EXCEPT ![t] = EmptyStore]
    /\ removed_at_start' = [removed_at_start EXCEPT ![t] = {}]
    /\ added_before' = [added_before EXCEPT ![t] = {}]
    /\ admitted' = [admitted EXCEPT ![t] = {}]
    /\ final_write' = [final_write EXCEPT ![t] = "none"]
    /\ UNCHANGED <<cache_file, removed_file, removed_article_links, agg_removed_article_links,
                   same_object, handler, add_ok, dd_in, dd_out, call_in, call_out,
                   permanent_cache, main_articles_by_topic, last_updated>>

\* The process is killed and started again: every thread is gone, the modules are
\* imported afresh, the files stay as they are. The globals of main.py are not
\* followed here; ServerStart below is the start with initialize_app.
Restart ==
    /\ removed_article_links' = Range(removed_file)
    /\ agg_removed_article_links' = Range(removed_file)
    /\ same_object' = TRUE
    /\ cache_refresh_running' = FALSE
    /\ pc' = [t \in Threads |-> "idle"]
    /\ articles_by_topic' = [t \in Threads |-> EmptyStore]
    /\ url_index' = [t \in Threads |-> 0]
    /\ last_feed' = [t \in Threads |-> NoFeed]
    /\ loaded' = [t \in Threads |-> EmptyStore]
    /\ removed_at_start' = [t \in Threads |-> {}]
    /\ added_before' = [t \in Threads |-> {}]
    /\ admitted' = [t \in Threads |-> {}]
    /\ handler' = [r \in Requests |-> NoRequest]
    /\ final_write' = [t \in Threads |-> "none"]
    /\ caller' = [t \in Threads |-> "none"]
    /\ UNCHANGED <<cache_file, removed_file, add_ok, dd_in, dd_out, call_in, call_out,
                   permanent_cache, main_articles_by_topic, last_updated>>

Next ==
    \/ \E t \in Threads : RefreshLoop(t)
    \/ \E t \in Threads : RefreshRequest(t)
    \/ \E t \in Threads : SetRunning(t)
    \/ \E t \in Threads : WorkerLoadRemoved(t)
    \/ \E t \in Threads : FetchLoadRemoved(t)
    \/ \E t \in Threads : FetchLoadCache(t)
    \/ \E t \in Threads, parse_ok \in BOOLEAN, outcome \in WriteOutcomes :
           FetchFeed(t, parse_ok, outcome)
    \/ \E t \in Threads, outcome \in WriteOutcomes : FinalSave(t, outcome)
    \/ \E t \in Threads : WorkerFinish(t)
    \/ \E link \in RemovableLinks : AddCheck(AdminRequest, link)
    \/ \E io_ok \in BOOLEAN : AddAppend(AdminRequest, io_ok)
    \/ Restart

Spec == Init /\ [][Next]_vars

(***************************************************************************)
(* Properties of the pipeline and of the refresh threads.                  *)
(***************************************************************************)
InRun(t) == pc[t] \in {"feeds", "returned"}

NoDuplicateLinks(st) ==
    \A i \in 1..Len(st) : \A j, k \in 1..Len(st[i].articles) :
        j # k => st[i].articles[j].link # st[i].articles[k].link

StoreContains(big, small) ==
    \A i \in 1..Len(small) :
        /\ small[i].topic \in Keys(big)
        /\ Range(small[i].articles) \subseteq Range(Bucket(big, small[i].topic))

IsSortedDesc(s) == \A i \in 1..(Len(s) - 1) : ~KeyLess(s[i], s[i + 1])

AllSorted(st) == \A i \in 1..Len(st) : IsSortedDesc(st[i].articles)

\* Thread t has just finished one pass of the for loop over the feeds.
FeedDone(t) == pc[t] = "feeds" /\ url_index'[t] = url_index[t] + 1

\* The entry passes the checks of lines 482-494.
Admissible(e, removed) ==
    /\ e.title # <<>> /\ e.link # ""
    /\ e.link \notin removed
    /\ ~e.neg
    /\ IsPositive(e)

\* C1: idempotent re-fetch. Starting from a cache without duplicate links in a
\* bucket, after any number of runs over the unchanged feeds no topic bucket, of
\* the cache file or of a run's store, holds two articles with the same link.
C1_IdempotentRefetch ==
    /\ cache_file.state = "ok" => NoDuplicateLinks(cache_file.store)
    /\ \A t \in Threads : NoDuplicateLinks(articles_by_topic[t])

\* C1 witness: a run that loaded a cache already holding link L1 has processed the
\* feed f2, which offers L1 again, and returned the store it has written.
C1_Witness ==
    \E t \in Threads :
        /\ pc[t] = "returned"
        /\ "L1" \in Links(loaded[t])
        /\ last_feed[t] = [url_index |-> 2, error |-> "none", added |-> 0, wrote |-> "none"]
        /\ cache_file = FileOk(articles_by_topic[t])

\* C4: no feed entry whose link is in the removed-articles file when a run starts
\* is admitted into the store during that run.
C4_RemovedLinksRechecked ==
    \A t \in Threads : InRun(t) => admitted[t] \cap removed_at_start[t] = {}

\* C5: once add_removed_article_link has returned True for a link, the store the
\* next completed run returns holds no article with that link.
C5_RemovedArticleDisappears ==
    \A t \in Threads :
        pc[t] = "returned" => Links(articles_by_topic[t]) \cap added_before[t] = {}

\* C6: at most one refresh thread executes fetch_and_filter_feeds at any time.
C6_NoOverlappingRuns ==
    Cardinality({t \in Threads : pc[t] \in {"load_cache", "feeds"}}) <= 1

\* C7: every article of the cache a run loaded is, in its topic bucket, in the
\* run's store at every later point of the run and in the store it returns: the
\* pipeline never removes an article.
C7_NoArticleLost ==
    \A t \in Threads : InRun(t) => StoreContains(articles_by_topic[t], loaded[t])

\* C7 witness: a run that loaded a cache written by an earlier run of the pipeline
\* (it holds an article of feed f1) has returned and its final write is the file.
C7_Witness ==
    \E t \in Threads :
        /\ pc[t] = "returned"
        /\ \E a \in AllArticles(loaded[t]) : a.source_feed = "f1"
        /\ AllArticles(articles_by_topic[t]) # AllArticles(loaded[t])
        /\ cache_file = FileOk(articles_by_topic[t])

\* C8: a feed whose fetch, parse or processing raised contributes no article to
\* the store.
C8_FailedFeedSkippedEntirely ==
    [][\A t \in Threads :
          (FeedDone(t) /\ last_feed'[t].error # "none")
              => articles_by_topic'[t] = articles_by_topic[t]]_vars

\* C9: an exception raised by one entry is caught for that entry alone: once a feed
\* that could be fetched has been processed, every entry of it that passes the
\* checks and does not itself raise is in its topic bucket.
C9_EntryFailureIsolated ==
    \A t \in Threads :
        (pc[t] = "feeds" /\ last_feed[t].url_index > 0 /\ last_feed[t].error # "parse")
            => \A e \in Range(FeedEntries(FEED_URLS[last_feed[t].url_index])) :
                   (e.raises = "none" /\ Admissible(e, agg_removed_article_links))
                       => e.link \in Links(articles_by_topic[t])

\* C10: when a feed that added at least one new article is finished, every topic
\* bucket is sorted in descending order of (is_inspirational, inspiration_score,
\* published), and the whole merged store (the loaded cache and every admission of
\* the run so far) is what is written over the cache file; the file is that store
\* unless the write itself raised.
C10_SortAndPersistAfterFeed ==
    [][\A t \in Threads :
          (FeedDone(t) /\ last_feed'[t].added > 0)
              => /\ AllSorted(articles_by_topic'[t])
                 /\ StoreContains(articles_by_topic'[t], loaded[t])
                 /\ admitted'[t] \subseteq Links(articles_by_topic'[t])
                 /\ last_feed'[t].wrote # "none"
                 /\ last_feed'[t].wrote = "ok" => cache_file' = FileOk(articles_by_topic'[t])]_vars

\* C10 witness: a feed added articles to a loaded, non-empty cache, a bucket holds
\* several articles, and the file is the store just written.
C10_Witness ==
    \E t \in Threads :
        /\ pc[t] = "feeds"
        /\ last_feed[t].added > 0
        /\ last_feed[t].wrote = "ok"
        /\ loaded[t] # EmptyStore
        /\ \E i \in 1..Len(articles_by_topic[t]) : Len(articles_by_topic[t][i].articles) >= 2
        /\ cache_file = FileOk(articles_by_topic[t])

(***************************************************************************)
(* The deduplication pass (main.py lines 46-117; bootstrap_cache.py lines  *)
(* 13-84 are the same code). A text is a sequence of one-character         *)
(* strings; an article is a record, a key the dict lacks is a field the    *)
(* record lacks.                                                           *)
\* Both refresh threads have returned from fetch_and_filter_feeds and the final
\* write of each went through.
BothFinished == \A t \in Threads : pc[t] = "returned" /\ final_write[t] = "ok"

\* C18: once two runs that were under way together have both finished, the cache
\* file holds a well-formed store with every article of the cache each run loaded
\* and every article admitted by either run.
C18_OverlapLosesNothing ==
    BothFinished =>
        /\ cache_file.state = "ok"
        /\ \A t \in Threads :
               /\ StoreContains(cache_file.store, loaded[t])
               /\ admitted[t] \subseteq Links(cache_file.store)

\* C19: a run takes the feed URLs one at a time in list order, each exactly once:
\* it enters the loop at the first URL, every pass attempts the URL at the current
\* index and moves to the next index, whether the feed failed or not, and the run
\* returns only when every URL has been taken, after a final write of its whole
\* store, unchanged, over the cache file (the file is that store unless the write
\* itself raised).
C19_FeedsInOrderThenFinalWrite ==
    [][\A t \in Threads :
          /\ (pc[t] # "feeds" /\ pc'[t] = "feeds") => url_index'[t] = 1
          /\ (pc[t] = "feeds" /\ pc'[t] = "feeds") =>
                 \/ url_index'[t] = url_index[t] /\ last_feed'[t] = last_feed[t]
                 \/ /\ url_index[t] \in 1..Len(FEED_URLS)
                    /\ url_index'[t] = url_index[t] + 1
                    /\ last_feed'[t].url_index = url_index[t]
          /\ (pc[t] # "returned" /\ pc'[t] = "returned") =>
                 /\ pc[t] = "feeds"
                 /\ last_feed[t].url_index = Len(FEED_URLS)
                 /\ url_index[t] = Len(FEED_URLS) + 1
                 /\ articles_by_topic'[t] = articles_by_topic[t]
                 /\ final_write'[t] # "none"
                 /\ final_write'[t] = "ok" => cache_file' = FileOk(articles_by_topic'[t])]_vars

\* C19 witness: a run whose last feed could not be fetched has returned after both
\* URLs, and the file is the store of its final write.
C19_Witness ==
    \E t \in Threads :
        /\ pc[t] = "returned"
        /\ url_index[t] = Len(FEED_URLS) + 1
        /\ last_feed[t].url_index = Len(FEED_URLS)
        /\ last_feed[t].error = "parse"
        /\ final_write[t] = "ok"
        /\ cache_file = FileOk(articles_by_topic[t])
        /\ admitted[t] # {}

(***************************************************************************)
SummaryPrefix == 100

LowerLetters ==
    <<"a", "b", "c", "d", "e", "f", "g", "h", "i", "j", "k", "l", "m",
       "n", "o", "p", "q", "r", "s", "t", "u", "v", "w", "x", "y", "z">>

UpperLetters ==
    <<"A", "B", "C", "D", "E", "F", "G", "H", "I", "J", "K", "L", "M",
       "N", "O", "P", "Q", "R", "S", "T", "U", "V", "W", "X", "Y", "Z">>

Digits == <<"0", "1", "2", "3", "4", "5", "6", "7", "8", "9">>

\* str.lower() on one character.
LowerOf ==
    [c \in Range(UpperLetters) |->
        LowerLetters[CHOOSE i \in 1..Len(UpperLetters) : UpperLetters[i] = c]]

LowerChar(c) == IF c \in DOMAIN LowerOf THEN LowerOf[c] ELSE c

\* \w and \s of the regular expressions of lines 53 and 55.
WordChars == Range(LowerLetters) \cup Range(UpperLetters) \cup Range(Digits) \cup {"_"}

IsWordChar(c) == c \in WordChars

IsSpaceChar(c) == c \in {" ", "\t"}

ToLower(text) == [i \in 1..Len(text) |-> LowerChar(text[i])]

KeepWordOrSpace(c) == IsWordChar(c) \/ IsSpaceChar(c)

\* re.sub(r'[^\w\s]', '', text)
StripPunctuation(text) == SelectSeq(text, KeepWordOrSpace)

\* re.sub(r'\s+', ' ', text): the first character of a run of whitespace becomes
\* a blank, the others of the run go.
DropMark == ""

MarkSpaces(text) ==
    [i \in 1..Len(text) |->
        IF IsSpaceChar(text[i])
        THEN IF i > 1 /\ IsSpaceChar(text[i - 1]) THEN DropMark ELSE " "
        ELSE text[i]]

NotDropped(c) == c # DropMark

CollapseSpaces(text) == SelectSeq(MarkSpaces(text), NotDropped)

\* str.strip()
StripLeft(text) ==
    IF \A i \in 1..Len(text) : IsSpaceChar(text[i]) THEN <<>>
    ELSE LET first == CHOOSE i \in 1..Len(text) :
                          ~IsSpaceChar(text[i]) /\ \A j \in 1..(i - 1) : IsSpaceChar(text[j])
         IN SubSeq(text, first, Len(text))

StripRight(text) ==
    IF \A i \in 1..Len(text) : IsSpaceChar(text[i]) THEN <<>>
    ELSE LET last == CHOOSE i \in 1..Len(text) :
                         ~IsSpaceChar(text[i]) /\ \A j \in (i + 1)..Len(text) : IsSpaceChar(text[j])
         IN SubSeq(text, 1, last)

normalize_text(text) ==
    IF text = <<>> THEN <<>>
    ELSE StripRight(StripLeft(CollapseSpaces(StripPunctuation(ToLower(text)))))

\* dict.get(key, default)
GetField(a, key, default) == IF key \in DOMAIN a THEN a[key] ELSE default

Prefix(text, n) == SubSeq(text, 1, IF Len(text) < n THEN Len(text) ELSE n)

content_signature(article) ==
    LET title == normalize_text(GetField(article, "title", <<>>))
        summary == normalize_text(GetField(article, "summary", <<>>))
    IN IF summary # <<>> THEN title \o Prefix(summary, SummaryPrefix) ELSE title

\* hashlib.md5(...).hexdigest(): equal for equal signatures, taken as free of
\* collisions between different ones.
generate_content_hash(article) == <<"md5", content_signature(article)>>

GetScore(a) == GetField(a, "sentiment_score", 0)

\* Mutant of ScoreGreater: the later article always wins.
ScoreGreaterAlways(incoming, existing) == TRUE

\* Mutant of ScoreGreater: an equal score replaces the kept article too.
ScoreGreaterOrEqual(incoming, existing) == GetScore(incoming) >= GetScore(existing)

\* Line 98.
ScoreGreater(incoming, existing) == GetScore(incoming) > GetScore(existing)

RECURSIVE RemoveFirstEqual(_, _)
RemoveFirstEqual(s, x) ==
    IF s = <<>> THEN <<>>
    ELSE IF Head(s) = x THEN Tail(s)
    ELSE <<Head(s)>> \o RemoveFirstEqual(Tail(s), x)

\* Mutant of ListRemove: the evicted article stays in its bucket.
ListRemoveNothing(s, x) == s

\* list.remove(x), line 100.
ListRemove(s, x) == RemoveFirstEqual(s, x)

\* Mutant of ReplacementTopic: the replacement goes where the kept article was.
ReplacementTopicExisting(topic, existing_topic) == existing_topic

\* Line 101: the replacing article is appended to the bucket of its own topic.
ReplacementTopic(topic, existing_topic) == topic

\* Lines 88-114 for one article: d is [seen, dedup], seen the set of
\* [hash, topic, article] that is the dict seen_hashes.
DedupArticle(d, topic, article) ==
    LET h == generate_content_hash(article)
    IN IF \E r \in d.seen : r.hash = h
       THEN LET ex == CHOOSE r \in d.seen : r.hash = h
            IN IF ScoreGreater(article, ex.article)
               THEN LET d1 == SetBucket(d.dedup, ex.topic,
                                        ListRemove(Bucket(d.dedup, ex.topic), ex.article))
                        to == ReplacementTopic(topic, ex.topic)
                        d2 == SetBucket(d1, to, Append(Bucket(d1, to), article))
                    IN [seen |-> (d.seen \ {ex}) \cup
                                     {[hash |-> h, topic |-> topic, article |-> article]},
                        dedup |-> d2]
               ELSE d
       ELSE [seen |-> d.seen \cup {[hash |-> h, topic |-> topic, article |-> article]},
             dedup |-> SetBucket(d.dedup, topic, Append(Bucket(d.dedup, topic), article))]

RECURSIVE DedupBucket(_, _, _, _)
DedupBucket(d, topic, articles, j) ==
    IF j > Len(articles) THEN d
    ELSE DedupBucket(DedupArticle(d, topic, articles[j]), topic, articles, j + 1)

RECURSIVE DedupTopics(_, _, _)
DedupTopics(d, st, i) ==
    IF i > Len(st) THEN d
    ELSE DedupTopics(
             DedupBucket([d EXCEPT !.dedup = SetBucket(d.dedup, st[i].topic, <<>>)],
                         st[i].topic, st[i].articles, 1),
             st, i + 1)

deduplicate_articles(st) == DedupTopics([seen |-> {}, dedup |-> EmptyStore], st, 1).dedup

(***************************************************************************)
(* The stores deduplicate_articles is applied to.                          *)
(***************************************************************************)
MaxDedupArticles == 3

Repeat(c, n) == [i \in 1..n |-> c]

LongSummary(last) == Repeat("x", SummaryPrefix) \o <<last>>

DedupArticles ==
    { [title |-> <<"A", "b", "!">>, summary |-> <<"c">>, sentiment_score |-> 60, link |-> "u1"],
      [title |-> <<"a", "b">>, summary |-> <<"c">>, sentiment_score |-> 90, link |-> "u2"],
      [title |-> <<"a">>, summary |-> <<"b", "c">>, sentiment_score |-> 75, link |-> "u3"],
      [title |-> <<"a", " ", "b">>, summary |-> <<>>, sentiment_score |-> -50, link |-> "u4"],
      [title |-> <<" ", "A", "\t", " ", "b", ",">>, link |-> "u5"],
      [title |-> <<"z">>, summary |-> LongSummary("y"), sentiment_score |-> 60, link |-> "u6"],
      [title |-> <<"z">>, summary |-> LongSummary("z"), sentiment_score |-> 90, link |-> "u7"],
      [title |-> <<"a", " ", "b">>, link |-> "u8"],
      [title |-> <<"a", "b", "c">>, sentiment_score |-> 60, link |-> "u9"] }

SeqsUpTo(S, n) == UNION {[1..k -> S] : k \in 0..n}

\* Two topic buckets holding the articles of s, the first k in the first bucket.
SplitStore(s, k) ==
    << [topic |-> "science", articles |-> SubSeq(s, 1, k)],
       [topic |-> "health", articles |-> SubSeq(s, k + 1, Len(s))] >>

DedupInputs ==
    {SplitStore(s[1], s[2]) :
        s \in {p \in SeqsUpTo(DedupArticles, MaxDedupArticles) \X (0..MaxDedupArticles) :
                  p[2] <= Len(p[1])}}

InitDedup ==
    /\ cache_file = FileMissing
    /\ removed_file = <<>>
    /\ removed_article_links = {}
    /\ agg_removed_article_links = {}
    /\ same_object = TRUE
    /\ cache_refresh_running = FALSE
    /\ pc = [t \in Threads |-> "idle"]
    /\ articles_by_topic = [t \in Threads |-> EmptyStore]
    /\ url_index = [t \in Threads |-> 0]
    /\ last_feed = [t \in Threads |-> NoFeed]
    /\ loaded = [t \in Threads |-> EmptyStore]
    /\ removed_at_start = [t \in Threads |-> {}]
    /\ added_before = [t \in Threads |-> {}]
    /\ admitted = [t \in Threads |-> {}]
    /\ handler = [r \in Requests |-> NoRequest]
    /\ add_ok = {}
    /\ dd_in \in DedupInputs
    /\ dd_out = DedupIdle
    /\ final_write = [t \in Threads |-> "none"]
    /\ call_in = NoCall
    /\ call_out = NoReturn
    /\ permanent_cache = PermanentMissing
    /\ main_articles_by_topic = EmptyStore
    /\ last_updated = "none"
    /\ caller = [t \in Threads |-> "none"]

\* The call deduplicate_articles(articles_by_topic) and its return.
Deduplicate ==
    /\ ~dd_out.done
    /\ dd_out' = [done |-> TRUE, store |-> deduplicate_articles(dd_in)]
    /\ UNCHANGED <<dd_in, pipeVars, callVars>>

NextDedup == Deduplicate

SpecDedup == InitDedup /\ [][NextDedup]_vars

(***************************************************************************)
(* Properties of the deduplication pass.                                   *)
(***************************************************************************)
\* The places <<bucket, index>> of a store.
Places(st) == {p \in (1..Len(st)) \X (1..MaxDedupArticles + 1) : p[2] <= Len(st[p[1]].articles)}

At(st, p) == st[p[1]].articles[p[2]]

PlacesWith(st, sig) == {p \in Places(st) : content_signature(At(st, p)) = sig}

Signatures(st) == {content_signature(At(st, p)) : p \in Places(st)}

MaxScore(st, sig) ==
    LET scores == {GetScore(At(st, p)) : p \in PlacesWith(st, sig)}
    IN CHOOSE m \in scores : \A x \in scores : x <= m

\* C2: when exactly two articles of the store share a content signature and their
\* sentiment scores differ, the returned store holds exactly one article with that
\* signature, the higher-scoring of the two, whichever of them comes first and
\* whether they are in one bucket or in two.
C2_DedupKeepsHigherOfTwo ==
    dd_out.done =>
        \A p, q \in Places(dd_in) :
            LET a == At(dd_in, p)
                b == At(dd_in, q)
            IN (/\ p # q
                /\ content_signature(a) = content_signature(b)
                /\ PlacesWith(dd_in, content_signature(a)) = {p, q}
                /\ GetScore(a) > GetScore(b))
                   => /\ Cardinality(PlacesWith(dd_out.store, content_signature(a))) = 1
                      /\ \A r \in PlacesWith(dd_out.store, content_signature(a)) :
                             At(dd_out.store, r) = a

\* C2 witness: the lower-scoring article came first, in another bucket than the
\* higher-scoring one that replaced it, and under a differently written title.
C2_Witness ==
    /\ dd_out.done
    /\ \E a, b \in DedupArticles :
           /\ a.link = "u1" /\ b.link = "u2"
           /\ dd_in = SplitStore(<<a, b>>, 1)
           /\ dd_out.store = SplitStore(<<b>>, 0)

\* C3: the returned store holds, over all buckets together, exactly one article
\* per content signature of the input and none of another signature, and that
\* article has the greatest sentiment_score (a missing one read as 0) of the input
\* articles with that signature.
C3_OneSurvivorPerSignature ==
    dd_out.done =>
        /\ Signatures(dd_out.store) = Signatures(dd_in)
        /\ \A sig \in Signatures(dd_in) :
               /\ Cardinality(PlacesWith(dd_out.store, sig)) = 1
               /\ \A r \in PlacesWith(dd_out.store, sig) :
                      /\ GetScore(At(dd_out.store, r)) = MaxScore(dd_in, sig)
                      /\ At(dd_out.store, r) \in AllArticles(dd_in)

\* C3 witness: three articles of one signature in two buckets, the best one last,
\* so that the kept article was replaced on the way.
C3_Witness ==
    /\ dd_out.done
    /\ Len(dd_in[1].articles) = 2 /\ Len(dd_in[2].articles) = 1
    /\ Cardinality(Signatures(dd_in)) = 1
    /\ GetScore(dd_in[1].articles[1]) < GetScore(dd_in[1].articles[2])
    /\ GetScore(dd_in[1].articles[2]) < GetScore(dd_in[2].articles[1])
    /\ dd_out.store = SplitStore(<<dd_in[2].articles[1]>>, 0)

\* p comes before q in the iteration over the buckets and within a bucket.
PlaceBefore(p, q) == p[1] < q[1] \/ (p[1] = q[1] /\ p[2] < q[2])

\* The articles of the store, each with its place, its topic, its content signature
\* and its score.
Placed(st) ==
    {[place |-> p, topic |-> st[p[1]].topic, article |-> At(st, p),
      sig |-> content_signature(At(st, p)), score |-> GetScore(At(st, p))] : p \in Places(st)}

\* C20: an incoming article replaces the kept article of its signature only if its
\* sentiment_score is strictly greater: of the articles of one signature the one
\* that survives is the first in iteration order to have the highest score (a
\* missing score read as 0), and it is in the topic bucket where it was met; an
\* article met later with an equal score is discarded.
C20_TieKeepsFirst ==
    dd_out.done =>
        LET given == Placed(dd_in)
            kept == Placed(dd_out.store)
        IN \A a \in given :
               (\A b \in given :
                    (b.place # a.place /\ b.sig = a.sig) =>
                        \/ b.score < a.score
                        \/ b.score = a.score /\ PlaceBefore(a.place, b.place))
                   => /\ \E r \in kept : r.sig = a.sig
                      /\ \A r \in kept :
                             r.sig = a.sig => r.article = a.article /\ r.topic = a.topic

\* C20 witness: two articles of one signature and no sentiment_score, under
\* different links, one in each bucket: the first stays in its bucket, the bucket
\* of the second is left empty.
C20_Witness ==
    /\ dd_out.done
    /\ \E a, b \in DedupArticles :
           /\ a.link = "u5" /\ b.link = "u8"
           /\ dd_in = SplitStore(<<a, b>>, 1)
           /\ dd_out.store = SplitStore(<<a>>, 1)

\* s can be made from t by leaving elements out, the order kept.
RECURSIVE IsSubsequence(_, _)
IsSubsequence(s, t) ==
    IF s = <<>> THEN TRUE
    ELSE IF t = <<>> THEN FALSE
    ELSE IF Head(s) = Head(t) THEN IsSubsequence(Tail(s), Tail(t))
    ELSE IsSubsequence(s, Tail(t))

\* C21: deduplicate_articles returns a store with exactly the topic keys of its
\* input, in the same order; every bucket of it is a subsequence, in order, of the
\* input bucket of the same topic; and the call leaves its input as it was.
C21_DedupFrame ==
    /\ [](dd_out.done =>
             /\ Len(dd_out.store) = Len(dd_in)
             /\ \A i \in 1..Len(dd_in) :
                    /\ dd_out.store[i].topic = dd_in[i].topic
                    /\ IsSubsequence(dd_out.store[i].articles, dd_in[i].articles))
    /\ [][dd_in' = dd_in]_vars

\* C21 witness: the kept article of the first bucket was replaced by a later one
\* of the second bucket, which leaves the first bucket empty but present, and the
\* second bucket lost its first article to a better one behind it.
C21_Witness ==
    /\ dd_out.done
    /\ Len(dd_in[1].articles) = 1 /\ Len(dd_in[2].articles) = 2
    /\ dd_out.store[1].articles = <<>>
    /\ dd_out.store[2].articles = <<dd_in[2].articles[2]>>
    /\ dd_in[2].articles[1] # dd_in[2].articles[2]

(***************************************************************************)
(* Texts of feed entries: sequences of one-character strings. The keyword  *)
(* tables are those of shared_data.py and aggregator.py, character by      *)
(* character.                                                              *)
(***************************************************************************)
NEGATIVE_KEYWORDS ==
    << <<"p", "o", "l", "i", "t", "i", "c", "s">>, <<"p", "o", "l", "i", "t", "i", "c", "a", "l">>,
       <<"e", "l", "e", "c", "t", "i", "o", "n">>, <<"v", "o", "t", "e">>,
       <<"g", "o", "v", "e", "r", "n", "m", "e", "n", "t">>,
       <<"p", "a", "r", "l", "i", "a", "m", "e", "n", "t">>,
       <<"c", "o", "n", "g", "r", "e", "s", "s">>, <<"s", "e", "x">>, <<"s", "e", "x", "u", "a", "l">>,
       <<"a", "b", "u", "s", "e">>, <<"a", "s", "s", "a", "u", "l", "t">>, <<"c", "r", "i", "m", "e">>,
       <<"m", "u", "r", "d", "e", "r">>, <<"k", "i", "l", "l", "e", "d">>, <<"d", "e", "a", "t", "h">>,
       <<"d", "e", "a", "d">>, <<"s", "h", "o", "o", "t", "i", "n", "g">>,
       <<"s", "t", "a", "b", "b", "e", "d">>, <<"v", "i", "o", "l", "e", "n", "c", "e">>,
       <<"v", "i", "o", "l", "e", "n", "t">>, <<"a", "r", "r", "e", "s", "t">>,
       <<"p", "o", "l", "i", "c", "e">>, <<"t", "h", "e", "f", "t">>,
       <<"r", "o", "b", "b", "e", "r", "y">>, <<"f", "r", "a", "u", "d">>,
       <<"s", "t", "o", "c", "k", " ", "m", "a", "r", "k", "e", "t">>,
       <<"s", "h", "a", "r", "e", "s">>, <<"d", "o", "w", " ", "j", "o", "n", "e", "s">>,
       <<"n", "a", "s", "d", "a", "q">>, <<"f", "i", "n", "a", "n", "c", "e">>,
       <<"e", "c", "o", "n", "o", "m", "y">>, <<"e", "c", "o", "n", "o", "m", "i", "c">>,
       <<"r", "e", "c", "e", "s", "s", "i", "o", "n">>,
       <<"i", "n", "f", "l", "a", "t", "i", "o", "n">>, <<"t", "a", "r", "i", "f", "f">>,
       <<"w", "a", "r">>, <<"c", "o", "n", "f", "l", "i", "c", "t">>,
       <<"m", "i", "l", "i", "t", "a", "r", "y">>, <<"a", "t", "t", "a", "c", "k">>,
       <<"b", "o", "m", "b", "i", "n", "g">>, <<"i", "n", "v", "a", "s", "i", "o", "n">>,
       <<"d", "i", "s", "a", "s", "t", "e", "r">>, <<"c", "r", "a", "s", "h">>,
       <<"c", "r", "i", "s", "i", "s">>, <<"e", "m", "e", "r", "g", "e", "n", "c", "y">>,
       <<"p", "r", "o", "t", "e", "s", "t">>, <<"r", "i", "o", "t">>,
       <<"s", "c", "a", "n", "d", "a", "l">> >>

POSITIVE_KEYWORDS ==
    << <<"a", "c", "h", "i", "e", "v", "e", "m", "e", "n", "t">>, <<"a", "w", "a", "r", "d">>,
       <<"b", "r", "e", "a", "k", "t", "h", "r", "o", "u", "g", "h">>,
       <<"d", "i", "s", "c", "o", "v", "e", "r", "y">>, <<"h", "o", "n", "o", "r">>,
       <<"m", "i", "l", "e", "s", "t", "o", "n", "e">>, <<"r", "e", "c", "o", "r", "d">>,
       <<"s", "u", "c", "c", "e", "s", "s">>, <<"v", "i", "c", "t", "o", "r", "y">>,
       <<"w", "i", "n", "s">>, <<"c", "h", "a", "r", "i", "t", "a", "b", "l", "e">>,
       <<"c", "o", "m", "m", "u", "n", "i", "t", "y">>,
       <<"c", "o", "o", "p", "e", "r", "a", "t", "i", "o", "n">>,
       <<"d", "i", "v", "e", "r", "s", "i", "t", "y">>, <<"d", "o", "n", "a", "t", "i", "o", "n">>,
       <<"e", "q", "u", "i", "t", "y">>, <<"g", "e", "n", "e", "r", "o", "s", "i", "t", "y">>,
       <<"i", "n", "c", "l", "u", "s", "i", "o", "n">>, <<"k", "i", "n", "d", "n", "e", "s", "s">>,
       <<"n", "o", "n", "p", "r", "o", "f", "i", "t">>,
       <<"p", "h", "i", "l", "a", "n", "t", "h", "r", "o", "p", "y">>,
       <<"t", "o", "g", "e", "t", "h", "e", "r">>, <<"u", "n", "i", "t", "y">>,
       <<"v", "o", "l", "u", "n", "t", "e", "e", "r">>, <<"w", "e", "l", "f", "a", "r", "e">>,
       <<"h", "a", "p", "p", "i", "n", "e", "s", "s">>, <<"h", "e", "a", "l", "i", "n", "g">>,
       <<"h", "o", "p", "e">>, <<"j", "o", "y">>, <<"o", "p", "t", "i", "m", "i", "s", "m">>,
       <<"p", "e", "a", "c", "e">>, <<"p", "o", "s", "i", "t", "i", "v", "e">>,
       <<"r", "e", "s", "i", "l", "i", "e", "n", "c", "e">>, <<"s", "m", "i", "l", "e">>,
       <<"s", "t", "r", "e", "n", "g", "t", "h">>, <<"u", "p", "l", "i", "f", "t", "i", "n", "g">>,
       <<"a", "d", "v", "a", "n", "c", "e", "m", "e", "n", "t">>,
       <<"d", "e", "v", "e", "l", "o", "p", "m", "e", "n", "t">>, <<"g", "r", "o", "w", "t", "h">>,
       <<"i", "m", "p", "r", "o", "v", "e", "m", "e", "n", "t">>,
       <<"i", "n", "n", "o", "v", "a", "t", "i", "o", "n">>,
       <<"i", "n", "v", "e", "n", "t", "i", "o", "n">>, <<"p", "r", "o", "g", "r", "e", "s", "s">>,
       <<"s", "o", "l", "u", "t", "i", "o", "n">>, <<"u", "p", "g", "r", "a", "d", "e">>,
       <<"c", "u", "r", "e", "d">>, <<"o", "v", "e", "r", "c", "a", "m", "e">>,
       <<"r", "e", "c", "o", "v", "e", "r", "y">>, <<"r", "e", "s", "c", "u", "e", "d">>,
       <<"r", "e", "s", "t", "o", "r", "e", "d">>, <<"r", "e", "u", "n", "i", "o", "n">>,
       <<"r", "e", "v", "i", "v", "a", "l">>, <<"s", "a", "v", "e", "d">>,
       <<"t", "r", "a", "n", "s", "f", "o", "r", "m", "e", "d">>,
       <<"t", "u", "r", "n", "a", "r", "o", "u", "n", "d">>, <<"a", "m", "a", "z", "i", "n", "g">>,
       <<"b", "e", "a", "u", "t", "i", "f", "u", "l">>,
       <<"c", "e", "l", "e", "b", "r", "a", "t", "e", "d">>,
       <<"g", "o", "o", "d", " ", "s", "a", "m", "a", "r", "i", "t", "a", "n">>,
       <<"h", "e", "r", "o">>, <<"i", "n", "s", "p", "i", "r", "i", "n", "g">>,
       <<"r", "e", "m", "a", "r", "k", "a", "b", "l", "e">>,
       <<"s", "u", "r", "p", "r", "i", "s", "e">>, <<"t", "o", "u", "c", "h", "i", "n", "g">>,
       <<"w", "o", "n", "d", "e", "r", "f", "u", "l">> >>

\* sep.join(words)
RECURSIVE Join(_, _)
Join(words, sep) ==
    IF words = <<>> THEN <<>>
    ELSE IF Len(words) = 1 THEN words[1]
    ELSE words[1] \o sep \o Join(Tail(words), sep)

\* text[i .. i + Len(kw) - 1] = kw
MatchAt(text, kw, i) ==
    /\ i >= 1
    /\ i + Len(kw) - 1 <= Len(text)
    /\ \A j \in 1..Len(kw) : text[i + j - 1] = kw[j]

\* phrase in text (Python substring test)
Contains(text, phrase) == \E i \in 1..(Len(text) - Len(phrase) + 1) : MatchAt(text, phrase, i)

WordCharAt(text, i) == i >= 1 /\ i <= Len(text) /\ IsWordChar(text[i])

\* \b just before the character at position i (or at the end for i = Len + 1).
IsBoundary(text, i) == WordCharAt(text, i - 1) # WordCharAt(text, i)

\* Mutant of SearchWord: a plain substring search, no word boundaries.
SearchWordAnywhere(text, kw) == Contains(text, kw)

\* re.search(r"\b" + re.escape(kw) + r"\b", text)
SearchWord(text, kw) ==
    \E i \in 1..Len(text) :
        /\ MatchAt(text, kw, i)
        /\ IsBoundary(text, i)
        /\ IsBoundary(text, i + Len(kw))

contains_negative_keyword(text) ==
    IF text = <<>> THEN FALSE
    ELSE \E k \in 1..Len(NEGATIVE_KEYWORDS) : SearchWord(ToLower(text), NEGATIVE_KEYWORDS[k])

contains_positive_keyword(text) ==
    IF text = <<>> THEN FALSE
    ELSE \E k \in 1..Len(POSITIVE_KEYWORDS) : SearchWord(ToLower(text), POSITIVE_KEYWORDS[k])

\* sid.polarity_scores(text)["compound"] is the analyser's answer for the text, here
\* the number the caller hands in (times 100); the empty text is not scored.
get_positive_sentiment_score(text, compound) == IF text = <<>> THEN 0 ELSE compound

\* f"{title}. {summary}"
CombinedText(title, summary) == title \o <<".", " ">> \o summary

\* Mutant of is_positive: both conditions are required.
is_positive_both(sentiment_score, text) ==
    sentiment_score > POSITIVE_THRESHOLD /\ contains_positive_keyword(text)

\* Line 491.
is_positive(sentiment_score, text) ==
    sentiment_score > POSITIVE_THRESHOLD \/ contains_positive_keyword(text)

\* Line 492: classify_with_llm returns True for every text.
classify_with_llm(text) == TRUE

\* Line 479: entry.get("summary", entry.get("description", ""))
EntrySummary(e) == GetField(e, "summary", GetField(e, "description", <<>>))

\* Lines 477-494 for an entry whose date parses: where the entry leaves the chain.
EntryVerdict(e, removed) ==
    LET title == GetField(e, "title", <<>>)
        link == GetField(e, "link", "")
        summary == EntrySummary(e)
        text == CombinedText(title, summary)
        sentiment_score == get_positive_sentiment_score(text, e.compound)
    IN IF title = <<>> \/ link = "" THEN "invalid"
       ELSE IF IsRemoved(link, removed) THEN "removed"
       ELSE IF contains_negative_keyword(title) \/ contains_negative_keyword(summary) THEN "negative"
       ELSE IF is_positive(sentiment_score, text) /\ classify_with_llm(text) THEN "admitted"
       ELSE "not_positive"

(***************************************************************************)
(* score_inspiration_with_llm (aggregator.py lines 278-308). Scores are    *)
(* integers: the compound times 100, the score before rounding times 100,  *)
(* the rounded values times 10.                                            *)
(***************************************************************************)
high_impact_words ==
    << <<"b", "r", "e", "a", "k", "t", "h", "r", "o", "u", "g", "h">>,
       <<"t", "r", "i", "u", "m", "p", "h">>, <<"o", "v", "e", "r", "c", "a", "m", "e">>,
       <<"h", "e", "r", "o">>, <<"s", "a", "v", "e", "d">>, <<"r", "e", "s", "c", "u", "e", "d">> >>

\* Mutant of HighImpactMatches: no keyword counts.
HighImpactMatchesNone(text) == 0

\* Line 295: sum(1 for word in high_impact_words if word in text_lower)
HighImpactMatches(text) ==
    Cardinality({k \in 1..Len(high_impact_words) : Contains(ToLower(text), high_impact_words[k])})

Min(a, b) == IF a < b THEN a ELSE b

Max(a, b) == IF a > b THEN a ELSE b

\* Mutant of ClampScore: only the cap at 10 is applied.
ClampScoreAbove(score) == Min(1000, score)

\* Line 299: min(10, max(1, score))
ClampScore(score) == Min(1000, Max(100, score))

\* round(score, 1) of a score given in hundredths, as tenths. A score whose decimal
\* value ends in 5 hundredths is a binary fraction just above or just below it:
\* tie_up says which.
Round1(score, tie_up) ==
    LET q == score \div 10
        r == score % 10
    IN IF r < 5 THEN q
       ELSE IF r > 5 THEN q + 1
       ELSE IF tie_up THEN q + 1 ELSE q

score_inspiration_with_llm(text, compound, tie_up) ==
    LET score == ClampScore(500 + compound * 5 + HighImpactMatches(text) * 100)
        rounded == Round1(score, tie_up)
    IN [composite |-> rounded, emotional |-> rounded, triumph |-> rounded,
        social |-> rounded, novelty |-> rounded, actionable |-> rounded]

\* The texts scored: the words picked from this list, in its order, joined by blanks;
\* all of the high-impact words, one in capitals, and one word that is none.
ScoreWords ==
    << <<"b", "r", "e", "a", "k", "t", "h", "r", "o", "u", "g", "h">>,
       <<"t", "r", "i", "u", "m", "p", "h">>,
       <<"o", "v", "e", "r", "c", "a", "m", "e">>,
       <<"H", "E", "R", "O">>,
       <<"s", "a", "v", "e", "d">>,
       <<"r", "e", "s", "c", "u", "e", "d">>,
       <<"c", "a", "t">> >>

RECURSIVE PickWords(_, _, _)
PickWords(words, picked, i) ==
    IF i > Len(words) THEN <<>>
    ELSE (IF i \in picked THEN <<words[i]>> ELSE <<>>) \o PickWords(words, picked, i + 1)

ScoreTexts == {Join(PickWords(ScoreWords, picked, 1), <<" ">>) : picked \in SUBSET (1..Len(ScoreWords))}

\* The analyser's compound for a text, times 100: any value of [-1, 1] for a text
\* with words, 0 for the empty text (it has no word to score).
ScoreCompounds == {-100, -99, -81, -80, -41, -40, -1, 0, 1, 50, 99, 100}

ScoreCalls ==
    { [fn |-> "score_inspiration_with_llm", text |-> text, compound |-> c, tie_up |-> tie_up] :
          text \in ScoreTexts \ {<<>>}, c \in ScoreCompounds, tie_up \in BOOLEAN }
    \cup { [fn |-> "score_inspiration_with_llm", text |-> <<>>, compound |-> 0, tie_up |-> tie_up] :
              tie_up \in BOOLEAN }

InitScore == InitCalls(ScoreCalls)

\* The call score_inspiration_with_llm(text) and its return.
ScoreInspiration ==
    /\ call_in.fn = "score_inspiration_with_llm"
    /\ ~call_out.done
    /\ call_out' = [done |-> TRUE,
                    scores |-> score_inspiration_with_llm(call_in.text, call_in.compound,
                                                          call_in.tie_up)]
    /\ UNCHANGED <<call_in, pipeVars, dedupVars>>

NextScore == ScoreInspiration

SpecScore == InitScore /\ [][NextScore]_vars

ScoreDimensions == {"composite", "emotional", "triumph", "social", "novelty", "actionable"}

\* C13: for every text, the composite and each of the five dimensions returned by
\* score_inspiration_with_llm lie in [1, 10] (here 10..100, in tenths), whatever the
\* sentiment in [-1, 1] and the number of high-impact keyword hits (0 to 6); for the
\* empty text the composite is the midpoint 5.
C13_ScoreClamped ==
    (call_in.fn = "score_inspiration_with_llm" /\ call_out.done) =>
        /\ DOMAIN call_out.scores = ScoreDimensions
        /\ \A d \in ScoreDimensions : call_out.scores[d] >= 10 /\ call_out.scores[d] <= 100
        /\ call_in.text = <<>> => call_out.scores.composite = 50

\* C13 witness: the most negative sentiment and no keyword hit, a raw score of 0
\* that comes back as 1.
C13_Witness ==
    /\ call_in.fn = "score_inspiration_with_llm"
    /\ call_out.done
    /\ call_in.compound = -100
    /\ call_in.text = <<"c", "a", "t">>
    /\ call_out.scores.composite = 10

(***************************************************************************)
(* classify_article_tags (aggregator.py lines 163-265). A tag is the       *)
(* record [name, color]; its icon is a constant that goes with the name.   *)
(* A rule is gated by a substring its phrases need in the topic.           *)
(***************************************************************************)
TagRules ==
    << [name |-> "Heartwarming", color |-> "#e76f51", gate |-> "none",
        phrases |->
            << <<"h", "e", "a", "r", "t", "w", "a", "r", "m", "i", "n", "g">>,
               <<"t", "o", "u", "c", "h", "i", "n", "g", " ", "s", "t", "o", "r", "y">>,
               <<"b", "r", "o", "u", "g", "h", "t", " ", "t", "e", "a", "r", "s">>,
               <<"e", "m", "o", "t", "i", "o", "n", "a", "l", " ", "r", "e", "u", "n", "i", "o", "n">>,
               <<"m", "o", "v", "e", "d", " ", "t", "o", " ", "t", "e", "a", "r", "s">> >>],
       [name |-> "Uplifting", color |-> "#f4a261", gate |-> "none",
        phrases |->
            << <<"u", "p", "l", "i", "f", "t", "i", "n", "g">>,
               <<"g", "i", "v", "e", "s", " ", "h", "o", "p", "e">>, <<"h", "o", "p", "e", "f", "u", "l">>,
               <<"s", "i", "l", "v", "e", "r", " ", "l", "i", "n", "i", "n", "g">>,
               <<"b", "r", "i", "g", "h", "t", " ", "f", "u", "t", "u", "r", "e">>,
               <<"p", "o", "s", "i", "t", "i", "v", "e", " ", "o", "u", "t", "l", "o", "o", "k">>,
               <<"r", "e", "a", "s", "o", "n", " ", "t", "o", " ", "s", "m", "i", "l", "e">> >>],
       [name |-> "Motivating", color |-> "#2a9d8f", gate |-> "none",
        phrases |->
            << <<"i", "n", "s", "p", "i", "r", "i", "n", "g">>,
               <<"m", "o", "t", "i", "v", "a", "t", "i", "n", "g">>,
               <<"n", "e", "v", "e", "r", " ", "g", "a", "v", "e", " ", "u", "p">>,
               <<"p", "e", "r", "s", "e", "v", "e", "r", "a", "n", "c", "e">>,
               <<"o", "v", "e", "r", "c", "a", "m", "e", " ", "o", "d", "d", "s">>,
               <<"a", "g", "a", "i", "n", "s", "t", " ", "a", "l", "l", " ", "o", "d", "d", "s">>,
               <<"d", "e", "f", "i", "e", "d", " ", "e", "x", "p", "e", "c", "t", "a", "t", "i", "o", "n", "s">>,
               <<"t", "r", "i", "u", "m", "p", "h">> >>],
       [name |-> "Calming", color |-> "#457b9d", gate |-> "health",
        phrases |->
            << <<"m", "e", "d", "i", "t", "a", "t", "i", "o", "n">>,
               <<"m", "i", "n", "d", "f", "u", "l", "n", "e", "s", "s", " ", "p", "r", "a", "c", "t", "i", "c", "e">>,
               <<"p", "e", "a", "c", "e", "f", "u", "l">>, <<"t", "r", "a", "n", "q", "u", "i", "l">>,
               <<"s", "e", "r", "e", "n", "e">>, <<"r", "e", "l", "a", "x", "a", "t", "i", "o", "n">> >>],
       [name |-> "Breakthrough", color |-> "#8338ec", gate |-> "none",
        phrases |->
            << <<"b", "r", "e", "a", "k", "t", "h", "r", "o", "u", "g", "h">>,
               <<"s", "c", "i", "e", "n", "t", "i", "f", "i", "c", " ", "d", "i", "s", "c", "o", "v", "e", "r", "y">>,
               <<"g", "r", "o", "u", "n", "d", "b", "r", "e", "a", "k", "i", "n", "g">>,
               <<"f", "i", "r", "s", "t", " ", "t", "i", "m", "e", " ", "e", "v", "e", "r">>,
               <<"w", "o", "r", "l", "d", " ", "f", "i", "r", "s", "t">>,
               <<"u", "n", "p", "r", "e", "c", "e", "d", "e", "n", "t", "e", "d">>,
               <<"r", "e", "v", "o", "l", "u", "t", "i", "o", "n", "a", "r", "y">> >>],
       [name |-> "Success Story", color |-> "#06a77d", gate |-> "none",
        phrases |->
            << <<"s", "u", "c", "c", "e", "s", "s", " ", "s", "t", "o", "r", "y">>,
               <<"a", "c", "h", "i", "e", "v", "e", "d", " ", "d", "r", "e", "a", "m">>,
               <<"r", "e", "a", "c", "h", "e", "d", " ", "m", "i", "l", "e", "s", "t", "o", "n", "e">>,
               <<"a", "c", "c", "o", "m", "p", "l", "i", "s", "h", "e", "d", " ", "g", "o", "a", "l">>,
               <<"d", "r", "e", "a", "m", "s", " ", "c", "o", "m", "e", " ", "t", "r", "u", "e">>,
               <<"m", "a", "d", "e", " ", "i", "t">> >>],
       [name |-> "Community", color |-> "#ff006e", gate |-> "none",
        phrases |->
            << <<"c", "o", "m", "m", "u", "n", "i", "t", "y", " ", "c", "a", "m", "e", " ", "t", "o", "g", "e", "t", "h", "e", "r">>,
               <<"n", "e", "i", "g", "h", "b", "o", "r", "s", " ", "h", "e", "l", "p", "e", "d">>,
               <<"v", "i", "l", "l", "a", "g", "e", " ", "r", "a", "l", "l", "i", "e", "d">>,
               <<"t", "o", "w", "n", " ", "u", "n", "i", "t", "e", "d">>,
               <<"c", "o", "l", "l", "e", "c", "t", "i", "v", "e", " ", "e", "f", "f", "o", "r", "t">>,
               <<"c", "o", "m", "m", "u", "n", "i", "t", "y", " ", "p", "r", "o", "j", "e", "c", "t">> >>],
       [name |-> "Acts of Kindness", color |-> "#fb5607", gate |-> "none",
        phrases |->
            << <<"a", "c", "t", " ", "o", "f", " ", "k", "i", "n", "d", "n", "e", "s", "s">>,
               <<"g", "o", "o", "d", " ", "s", "a", "m", "a", "r", "i", "t", "a", "n">>,
               <<"h", "e", "r", "o", " ", "s", "a", "v", "e", "d">>, <<"r", "e", "s", "c", "u", "e", "d">>,
               <<"s", "e", "l", "f", "l", "e", "s", "s", " ", "a", "c", "t">>,
               <<"h", "e", "l", "p", "e", "d", " ", "s", "t", "r", "a", "n", "g", "e", "r">>,
               <<"p", "a", "i", "d", " ", "i", "t", " ", "f", "o", "r", "w", "a", "r", "d">> >>],
       [name |-> "Health Innovation", color |-> "#06a77d", gate |-> "health_or_wellness",
        phrases |->
            << <<"m", "e", "d", "i", "c", "a", "l", " ", "b", "r", "e", "a", "k", "t", "h", "r", "o", "u", "g", "h">>,
               <<"n", "e", "w", " ", "t", "r", "e", "a", "t", "m", "e", "n", "t">>, <<"c", "u", "r", "e">>,
               <<"h", "e", "a", "l", "i", "n", "g">>,
               <<"h", "e", "a", "l", "t", "h", " ", "r", "e", "c", "o", "v", "e", "r", "y">>,
               <<"p", "a", "t", "i", "e", "n", "t", "s", " ", "b", "e", "n", "e", "f", "i", "t", "e", "d">> >>],
       [name |-> "Mental Health", color |-> "#7209b7", gate |-> "none",
        phrases |->
            << <<"m", "e", "n", "t", "a", "l", " ", "h", "e", "a", "l", "t", "h", " ", "b", "r", "e", "a", "k", "t", "h", "r", "o", "u", "g", "h">>,
               <<"t", "h", "e", "r", "a", "p", "y", " ", "s", "u", "c", "c", "e", "s", "s">>,
               <<"d", "e", "p", "r", "e", "s", "s", "i", "o", "n", " ", "t", "r", "e", "a", "t", "m", "e", "n", "t">>,
               <<"a", "n", "x", "i", "e", "t", "y", " ", "r", "e", "l", "i", "e", "f">>,
               <<"m", "e", "n", "t", "a", "l", " ", "w", "e", "l", "l", "n", "e", "s", "s">> >>],
       [name |-> "Eco-Friendly", color |-> "#52b788", gate |-> "environment",
        phrases |->
            << <<"e", "n", "v", "i", "r", "o", "n", "m", "e", "n", "t", "a", "l", " ", "v", "i", "c", "t", "o", "r", "y">>,
               <<"c", "l", "i", "m", "a", "t", "e", " ", "s", "o", "l", "u", "t", "i", "o", "n">>,
               <<"s", "a", "v", "e", "d", " ", "e", "c", "o", "s", "y", "s", "t", "e", "m">>,
               <<"r", "e", "n", "e", "w", "a", "b", "l", "e", " ", "e", "n", "e", "r", "g", "y", " ", "b", "r", "e", "a", "k", "t", "h", "r", "o", "u", "g", "h">>,
               <<"c", "a", "r", "b", "o", "n", " ", "n", "e", "u", "t", "r", "a", "l">>,
               <<"r", "e", "s", "t", "o", "r", "e", "d", " ", "h", "a", "b", "i", "t", "a", "t">> >>],
       [name |-> "Educational", color |-> "#4361ee", gate |-> "none",
        phrases |->
            << <<"e", "d", "u", "c", "a", "t", "i", "o", "n", " ", "b", "r", "e", "a", "k", "t", "h", "r", "o", "u", "g", "h">>,
               <<"l", "e", "a", "r", "n", "i", "n", "g", " ", "r", "e", "v", "o", "l", "u", "t", "i", "o", "n">>,
               <<"s", "c", "h", "o", "l", "a", "r", "s", "h", "i", "p", " ", "p", "r", "o", "g", "r", "a", "m">>,
               <<"s", "t", "u", "d", "e", "n", "t", "s", " ", "e", "x", "c", "e", "l", "l", "e", "d">>,
               <<"t", "e", "a", "c", "h", "i", "n", "g", " ", "i", "n", "n", "o", "v", "a", "t", "i", "o", "n">> >>],
       [name |-> "Problem Solver", color |-> "#f72585", gate |-> "none",
        phrases |->
            << <<"s", "o", "l", "u", "t", "i", "o", "n", " ", "t", "o">>,
               <<"s", "o", "l", "v", "e", "d", " ", "p", "r", "o", "b", "l", "e", "m">>,
               <<"i", "n", "n", "o", "v", "a", "t", "i", "v", "e", " ", "a", "p", "p", "r", "o", "a", "c", "h">>,
               <<"n", "e", "w", " ", "w", "a", "y", " ", "t", "o">>,
               <<"g", "a", "m", "e", "-", "c", "h", "a", "n", "g", "i", "n", "g">> >>] >>

\* Line 249: the words of the lenient rule.
InspiringWords ==
    << <<"i", "n", "s", "p", "i", "r", "i", "n", "g">>, <<"a", "m", "a", "z", "i", "n", "g">>,
       <<"i", "n", "c", "r", "e", "d", "i", "b", "l", "e">>,
       <<"e", "x", "t", "r", "a", "o", "r", "d", "i", "n", "a", "r", "y">>,
       <<"r", "e", "m", "a", "r", "k", "a", "b", "l", "e">> >>

\* The value None (JSON null) where a text is expected.
None == <<"None">>

\* Mutant of TagGateOpen: no rule looks at the topic.
TagGateAlwaysOpen(gate, topic) == TRUE

\* Lines 193, 219 and 230: the condition on the topic of the rules that have one.
TagGateOpen(gate, topic) ==
    IF gate = "none" THEN TRUE
    ELSE IF gate = "health" THEN Contains(topic, <<"h", "e", "a", "l", "t", "h">>)
    ELSE IF gate = "health_or_wellness"
         THEN Contains(topic, <<"h", "e", "a", "l", "t", "h">>) \/ Contains(topic, <<"w", "e", "l", "l", "n", "e", "s", "s">>)
    ELSE Contains(topic, <<"e", "n", "v", "i", "r", "o", "n", "m", "e", "n", "t">>)

\* any(phrase in combined for phrase in ..._words), with the rule's topic condition.
TagRuleFires(rule, combined, topic) ==
    /\ TagGateOpen(rule.gate, topic)
    /\ \E k \in 1..Len(rule.phrases) : Contains(combined, rule.phrases[k])

TagOf(rule) == [name |-> rule.name, color |-> rule.color]

\* Lines 176-245: the tags of the rules that fire, in the order of the rules.
RECURSIVE FiredTags(_, _, _)
FiredTags(i, combined, topic) ==
    IF i > Len(TagRules) THEN <<>>
    ELSE (IF TagRuleFires(TagRules[i], combined, topic) THEN <<TagOf(TagRules[i])>> ELSE <<>>)
             \o FiredTags(i + 1, combined, topic)

\* Lines 247-251: no tag but an inspiration score of at least 8.
LenientTags(tags, combined, inspiration_score) ==
    IF /\ tags = <<>>
       /\ inspiration_score >= 80
       /\ \E k \in 1..Len(InspiringWords) : Contains(combined, InspiringWords[k])
    THEN <<[name |-> "Inspiring", color |-> "#e76f51"]>>
    ELSE tags

\* Lines 253-259: the first tag of each name, in order.
RECURSIVE UniqueTags(_, _)
UniqueTags(tags, seen) ==
    IF tags = <<>> THEN <<>>
    ELSE IF Head(tags).name \in seen THEN UniqueTags(Tail(tags), seen)
    ELSE <<Head(tags)>> \o UniqueTags(Tail(tags), seen \cup {Head(tags).name})

\* Mutant of TagCap: the list is returned whole.
TagCapNone(tags) == tags

\* Line 262: unique_tags[:2]
TagCap(tags) == SubSeq(tags, 1, Min(2, Len(tags)))

\* .lower() of None raises, the except of line 264 returns [].
classify_article_tags(article) ==
    LET title == GetField(article, "title", <<>>)
        summary == GetField(article, "summary", <<>>)
        topic == GetField(article, "topic_name", <<>>)
    IN IF None \in {title, summary, topic} THEN <<>>
       ELSE LET combined == ToLower(title) \o <<" ">> \o ToLower(summary)
                tags == FiredTags(1, combined, ToLower(topic))
            IN TagCap(UniqueTags(LenientTags(tags, combined,
                                             GetField(article, "inspiration_score", 0)),
                                 {}))

\* The articles classified: the title holds up to MaxTagPhrases of these phrases,
\* one of each rule in the order of the rules and last a word of the lenient rule.
MaxTagPhrases == 3

TagPhrases ==
    << <<"h", "e", "a", "r", "t", "w", "a", "r", "m", "i", "n", "g">>,
       <<"u", "p", "l", "i", "f", "t", "i", "n", "g">>,
       <<"i", "n", "s", "p", "i", "r", "i", "n", "g">>,
       <<"m", "e", "d", "i", "t", "a", "t", "i", "o", "n">>,
       <<"b", "r", "e", "a", "k", "t", "h", "r", "o", "u", "g", "h">>,
       <<"m", "a", "d", "e", " ", "i", "t">>,
       <<"c", "o", "m", "m", "u", "n", "i", "t", "y", " ", "p", "r", "o", "j", "e", "c", "t">>,
       <<"r", "e", "s", "c", "u", "e", "d">>,
       <<"c", "u", "r", "e">>,
       <<"a", "n", "x", "i", "e", "t", "y", " ", "r", "e", "l", "i", "e", "f">>,
       <<"c", "a", "r", "b", "o", "n", " ", "n", "e", "u", "t", "r", "a", "l">>,
       <<"s", "c", "h", "o", "l", "a", "r", "s", "h", "i", "p", " ", "p", "r", "o", "g", "r", "a", "m">>,
       <<"g", "a", "m", "e", "-", "c", "h", "a", "n", "g", "i", "n", "g">>,
       <<"a", "m", "a", "z", "i", "n", "g">> >>

TagTopics == { <<"h", "e", "a", "l", "t", "h">>, <<"e", "n", "v", "i", "r", "o", "n", "m", "e", "n", "t">>,
               <<"s", "c", "i", "e", "n", "c", "e">> }

TagCalls ==
    { [fn |-> "classify_article_tags", picked |-> picked,
       article |-> [title |-> Join(PickWords(TagPhrases, picked, 1), <<" ">>),
                    summary |-> <<>>, topic_name |-> topic, inspiration_score |-> insp]] :
          picked \in {p \in SUBSET (1..Len(TagPhrases)) : Cardinality(p) <= MaxTagPhrases},
          topic \in TagTopics, insp \in {79, 80} }
    \cup { [fn |-> "classify_article_tags", picked |-> {},
            article |-> [title |-> <<"R", "e", "s", "c", "u", "e", "d">>]],
           [fn |-> "classify_article_tags", picked |-> {},
            article |-> [title |-> <<"r", "e", "s", "c", "u", "e", "d">>, summary |-> None,
                         topic_name |-> <<"h", "e", "a", "l", "t", "h">>, inspiration_score |-> 90]] }

InitTags == InitCalls(TagCalls)

\* The call classify_article_tags(article) and its return.
ClassifyTags ==
    /\ call_in.fn = "classify_article_tags"
    /\ ~call_out.done
    /\ call_out' = [done |-> TRUE, tags |-> classify_article_tags(call_in.article)]
    /\ UNCHANGED <<call_in, pipeVars, dedupVars>>

NextTags == ClassifyTags

SpecTags == InitTags /\ [][NextTags]_vars

\* C14: classify_article_tags returns at most 2 tags and no two tags of the same
\* name, for every article.
C14_TagCap ==
    (call_in.fn = "classify_article_tags" /\ call_out.done) =>
        /\ Len(call_out.tags) <= 2
        /\ \A i, j \in 1..Len(call_out.tags) :
               i # j => call_out.tags[i].name # call_out.tags[j].name

\* C14 witness: a title with the phrases of three rules that all fire gets the tags
\* of the first two.
C14_Witness ==
    /\ call_in.fn = "classify_article_tags"
    /\ call_out.done
    /\ call_in.picked = {2, 5, 8}
    /\ Len(call_out.tags) = 2
    /\ call_out.tags[1].name = "Uplifting"
    /\ call_out.tags[2].name = "Breakthrough"

(***************************************************************************)
(* get_topic_and_icon (aggregator.py lines 399-419).                       *)
(***************************************************************************)
TOPIC_KEYWORDS ==
    << [topic |-> <<"t", "e", "c", "h", "n", "o", "l", "o", "g", "y">>,
        keywords |->
            << <<"t", "e", "c", "h">>, <<"a", "i">>,
               <<"a", "r", "t", "i", "f", "i", "c", "i", "a", "l", " ", "i", "n", "t", "e", "l", "l", "i", "g", "e", "n", "c", "e">>,
               <<"s", "o", "f", "t", "w", "a", "r", "e">>, <<"s", "t", "a", "r", "t", "u", "p">>,
               <<"i", "n", "n", "o", "v", "a", "t", "i", "o", "n">>, <<"d", "i", "g", "i", "t", "a", "l">>,
               <<"c", "r", "y", "p", "t", "o">>, <<"b", "l", "o", "c", "k", "c", "h", "a", "i", "n">>,
               <<"a", "p", "p">>, <<"p", "r", "o", "g", "r", "a", "m", "m", "i", "n", "g">>,
               <<"g", "a", "d", "g", "e", "t">>, <<"s", "m", "a", "r", "t", "p", "h", "o", "n", "e">>,
               <<"c", "o", "m", "p", "u", "t", "e", "r">> >>],
       [topic |-> <<"s", "c", "i", "e", "n", "c", "e">>,
        keywords |->
            << <<"s", "c", "i", "e", "n", "c", "e">>, <<"r", "e", "s", "e", "a", "r", "c", "h">>,
               <<"s", "p", "a", "c", "e">>, <<"n", "a", "s", "a">>, <<"p", "h", "y", "s", "i", "c", "s">>,
               <<"b", "i", "o", "l", "o", "g", "y">>, <<"d", "i", "s", "c", "o", "v", "e", "r", "y">>,
               <<"s", "t", "u", "d", "y">>, <<"b", "r", "e", "a", "k", "t", "h", "r", "o", "u", "g", "h">>,
               <<"s", "c", "i", "e", "n", "t", "i", "f", "i", "c">>,
               <<"a", "s", "t", "r", "o", "n", "o", "m", "y">>, <<"c", "l", "i", "m", "a", "t", "e">>,
               <<"m", "e", "d", "i", "c", "a", "l", " ", "r", "e", "s", "e", "a", "r", "c", "h">> >>],
       [topic |-> <<"b", "u", "s", "i", "n", "e", "s", "s">>,
        keywords |->
            << <<"b", "u", "s", "i", "n", "e", "s", "s">>,
               <<"e", "n", "t", "r", "e", "p", "r", "e", "n", "e", "u", "r">>,
               <<"s", "t", "a", "r", "t", "u", "p">>, <<"c", "o", "m", "p", "a", "n", "y">>,
               <<"m", "a", "r", "k", "e", "t">>, <<"i", "n", "v", "e", "s", "t", "m", "e", "n", "t">>,
               <<"s", "u", "c", "c", "e", "s", "s", " ", "s", "t", "o", "r", "y">>,
               <<"c", "a", "r", "e", "e", "r">>, <<"l", "e", "a", "d", "e", "r", "s", "h", "i", "p">>,
               <<"i", "n", "n", "o", "v", "a", "t", "i", "o", "n">>, <<"g", "r", "o", "w", "t", "h">>,
               <<"r", "e", "v", "e", "n", "u", "e">>, <<"i", "p", "o">>,
               <<"v", "e", "n", "t", "u", "r", "e", " ", "c", "a", "p", "i", "t", "a", "l">> >>],
       [topic |-> <<"h", "e", "a", "l", "t", "h">>,
        keywords |->
            << <<"h", "e", "a", "l", "t", "h">>, <<"w", "e", "l", "l", "n", "e", "s", "s">>,
               <<"f", "i", "t", "n", "e", "s", "s">>,
               <<"m", "e", "n", "t", "a", "l", " ", "h", "e", "a", "l", "t", "h">>,
               <<"m", "e", "d", "i", "t", "a", "t", "i", "o", "n">>,
               <<"n", "u", "t", "r", "i", "t", "i", "o", "n">>, <<"e", "x", "e", "r", "c", "i", "s", "e">>,
               <<"t", "h", "e", "r", "a", "p", "y">>, <<"m", "i", "n", "d", "f", "u", "l", "n", "e", "s", "s">>,
               <<"w", "e", "l", "l", "b", "e", "i", "n", "g">>, <<"r", "e", "c", "o", "v", "e", "r", "y">>,
               <<"b", "r", "e", "a", "k", "t", "h", "r", "o", "u", "g", "h", " ", "t", "r", "e", "a", "t", "m", "e", "n", "t">> >>],
       [topic |-> <<"e", "n", "v", "i", "r", "o", "n", "m", "e", "n", "t">>,
        keywords |->
            << <<"e", "n", "v", "i", "r", "o", "n", "m", "e", "n", "t">>,
               <<"c", "l", "i", "m", "a", "t", "e", " ", "s", "o", "l", "u", "t", "i", "o", "n">>,
               <<"s", "u", "s", "t", "a", "i", "n", "a", "b", "i", "l", "i", "t", "y">>,
               <<"r", "e", "n", "e", "w", "a", "b", "l", "e", " ", "e", "n", "e", "r", "g", "y">>,
               <<"c", "o", "n", "s", "e", "r", "v", "a", "t", "i", "o", "n">>,
               <<"g", "r", "e", "e", "n", " ", "t", "e", "c", "h", "n", "o", "l", "o", "g", "y">>,
               <<"s", "o", "l", "a", "r">>, <<"w", "i", "n", "d", " ", "p", "o", "w", "e", "r">>,
               <<"e", "l", "e", "c", "t", "r", "i", "c", " ", "v", "e", "h", "i", "c", "l", "e">>,
               <<"c", "a", "r", "b", "o", "n", " ", "n", "e", "u", "t", "r", "a", "l">>,
               <<"r", "e", "c", "y", "c", "l", "i", "n", "g">> >>],
       [topic |-> <<"p", "e", "r", "s", "o", "n", "a", "l", "_", "g", "r", "o", "w", "t", "h">>,
        keywords |->
            << <<"m", "o", "t", "i", "v", "a", "t", "i", "o", "n">>,
               <<"i", "n", "s", "p", "i", "r", "a", "t", "i", "o", "n">>,
               <<"p", "e", "r", "s", "o", "n", "a", "l", " ", "d", "e", "v", "e", "l", "o", "p", "m", "e", "n", "t">>,
               <<"a", "c", "h", "i", "e", "v", "e", "m", "e", "n", "t">>, <<"s", "u", "c", "c", "e", "s", "s">>,
               <<"g", "o", "a", "l">>, <<"m", "i", "n", "d", "s", "e", "t">>,
               <<"p", "r", "o", "d", "u", "c", "t", "i", "v", "i", "t", "y">>, <<"h", "a", "b", "i", "t", "s">>,
               <<"s", "e", "l", "f", "-", "i", "m", "p", "r", "o", "v", "e", "m", "e", "n", "t">>,
               <<"o", "v", "e", "r", "c", "o", "m", "e">>,
               <<"t", "r", "a", "n", "s", "f", "o", "r", "m", "a", "t", "i", "o", "n">> >>],
       [topic |-> <<"s", "o", "c", "i", "a", "l", "_", "i", "m", "p", "a", "c", "t">>,
        keywords |->
            << <<"c", "o", "m", "m", "u", "n", "i", "t", "y">>, <<"c", "h", "a", "r", "i", "t", "y">>,
               <<"v", "o", "l", "u", "n", "t", "e", "e", "r">>, <<"n", "o", "n", "p", "r", "o", "f", "i", "t">>,
               <<"s", "o", "c", "i", "a", "l", " ", "g", "o", "o", "d">>,
               <<"d", "o", "n", "a", "t", "i", "o", "n">>, <<"h", "e", "l", "p", "i", "n", "g">>,
               <<"k", "i", "n", "d", "n", "e", "s", "s">>,
               <<"p", "h", "i", "l", "a", "n", "t", "h", "r", "o", "p", "y">>,
               <<"a", "c", "t", "i", "v", "i", "s", "m">>,
               <<"c", "h", "a", "n", "g", "e", " ", "m", "a", "k", "e", "r">>, <<"i", "m", "p", "a", "c", "t">> >>],
       [topic |-> <<"c", "u", "l", "t", "u", "r", "e">>,
        keywords |->
            << <<"a", "r", "t">>, <<"m", "u", "s", "i", "c">>, <<"f", "i", "l", "m">>, <<"b", "o", "o", "k">>,
               <<"c", "u", "l", "t", "u", "r", "e">>, <<"c", "r", "e", "a", "t", "i", "v", "e">>,
               <<"a", "r", "t", "i", "s", "t">>, <<"p", "e", "r", "f", "o", "r", "m", "a", "n", "c", "e">>,
               <<"e", "x", "h", "i", "b", "i", "t", "i", "o", "n">>, <<"t", "h", "e", "a", "t", "e", "r">>,
               <<"d", "e", "s", "i", "g", "n">>, <<"p", "h", "o", "t", "o", "g", "r", "a", "p", "h", "y">> >>],
       [topic |-> <<"t", "r", "a", "v", "e", "l">>,
        keywords |->
            << <<"t", "r", "a", "v", "e", "l">>, <<"d", "e", "s", "t", "i", "n", "a", "t", "i", "o", "n">>,
               <<"a", "d", "v", "e", "n", "t", "u", "r", "e">>, <<"t", "o", "u", "r", "i", "s", "m">>,
               <<"e", "x", "p", "l", "o", "r", "e">>, <<"j", "o", "u", "r", "n", "e", "y">>,
               <<"v", "a", "c", "a", "t", "i", "o", "n">>, <<"w", "a", "n", "d", "e", "r", "l", "u", "s", "t">>,
               <<"d", "i", "s", "c", "o", "v", "e", "r", "y">>,
               <<"c", "u", "l", "t", "u", "r", "a", "l", " ", "e", "x", "c", "h", "a", "n", "g", "e">> >>],
       [topic |-> <<"r", "e", "l", "a", "t", "i", "o", "n", "s", "h", "i", "p", "s">>,
        keywords |->
            << <<"r", "e", "l", "a", "t", "i", "o", "n", "s", "h", "i", "p">>,
               <<"m", "a", "r", "r", "i", "a", "g", "e">>, <<"f", "r", "i", "e", "n", "d", "s", "h", "i", "p">>,
               <<"f", "a", "m", "i", "l", "y">>, <<"c", "o", "n", "n", "e", "c", "t", "i", "o", "n">>,
               <<"l", "o", "v", "e">>, <<"s", "u", "p", "p", "o", "r", "t">>,
               <<"c", "o", "m", "m", "u", "n", "i", "t", "y">>, <<"b", "e", "l", "o", "n", "g", "i", "n", "g">>,
               <<"h", "u", "m", "a", "n", " ", "i", "n", "t", "e", "r", "e", "s", "t">> >>],
       [topic |-> <<"s", "p", "o", "r", "t", "s">>,
        keywords |->
            << <<"s", "p", "o", "r", "t">>, <<"a", "t", "h", "l", "e", "t", "e">>,
               <<"c", "h", "a", "m", "p", "i", "o", "n", "s", "h", "i", "p">>,
               <<"v", "i", "c", "t", "o", "r", "y">>, <<"r", "e", "c", "o", "r", "d">>,
               <<"c", "o", "m", "e", "b", "a", "c", "k">>,
               <<"p", "e", "r", "s", "e", "v", "e", "r", "a", "n", "c", "e">>, <<"t", "e", "a", "m">>,
               <<"c", "o", "m", "p", "e", "t", "i", "t", "i", "o", "n">>,
               <<"f", "i", "t", "n", "e", "s", "s", " ", "a", "c", "h", "i", "e", "v", "e", "m", "e", "n", "t">> >>] >>

\* len(re.findall(r"\b" + re.escape(keyword) + r"\b", text)): matches from left to
\* right that do not overlap.
RECURSIVE CountWordFrom(_, _, _)
CountWordFrom(text, kw, i) ==
    LET starts == {k \in i..Len(text) :
                      MatchAt(text, kw, k) /\ IsBoundary(text, k) /\ IsBoundary(text, k + Len(kw))}
    IN IF starts = {} THEN 0
       ELSE LET first == CHOOSE k \in starts : \A y \in starts : k <= y
            IN 1 + CountWordFrom(text, kw, first + Len(kw))

RECURSIVE SumKeywordCounts(_, _, _)
SumKeywordCounts(text, keywords, k) ==
    IF k > Len(keywords) THEN 0
    ELSE CountWordFrom(text, keywords[k], 1) + SumKeywordCounts(text, keywords, k + 1)

\* Lines 404-409.
TopicScores(text) ==
    [i \in 1..Len(TOPIC_KEYWORDS) |-> SumKeywordCounts(text, TOPIC_KEYWORDS[i].keywords, 1)]

\* Mutant of FirstMax: of several highest scores the last one is taken.
LastMax(scores) ==
    CHOOSE i \in 1..Len(scores) :
        /\ \A j \in 1..Len(scores) : scores[j] <= scores[i]
        /\ \A j \in (i + 1)..Len(scores) : scores[j] < scores[i]

\* Line 412: max() over the items of the dict returns the first item with the
\* highest score.
FirstMax(scores) ==
    CHOOSE i \in 1..Len(scores) :
        /\ \A j \in 1..Len(scores) : scores[j] <= scores[i]
        /\ \A j \in 1..(i - 1) : scores[j] < scores[i]

\* Lines 411-419: the best topic, or "general" with the icon of "good news" when
\* every score is 0. The icon is named by the key looked up in topic_icon_map.
TopicOfScores(scores) ==
    IF \E i \in 1..Len(scores) : scores[i] # 0
    THEN [topic_name |-> TOPIC_KEYWORDS[FirstMax(scores)].topic,
          icon_key |-> TOPIC_KEYWORDS[FirstMax(scores)].topic]
    ELSE [topic_name |-> <<"g", "e", "n", "e", "r", "a", "l">>,
          icon_key |-> <<"g", "o", "o", "d", " ", "n", "e", "w", "s">>]

\* Lines 399-419.
get_topic_and_icon(title, summary) ==
    TopicOfScores(TopicScores(ToLower(title \o <<" ">> \o summary)))

(***************************************************************************)
(* get_topic_and_icon called on its own, on titles and summaries written   *)
(* from a few words; next to each word, the topics whose keyword list      *)
(* holds it.                                                               *)
(***************************************************************************)
MaxTopicWords == 3

TopicWords ==
    { [word |-> <<"S", "t", "a", "r", "t", "u", "p">>,
       topics |-> {<<"t", "e", "c", "h", "n", "o", "l", "o", "g", "y">>, <<"b", "u", "s", "i", "n", "e", "s", "s">>}],
      [word |-> <<"d", "i", "s", "c", "o", "v", "e", "r", "y">>,
       topics |-> {<<"s", "c", "i", "e", "n", "c", "e">>, <<"t", "r", "a", "v", "e", "l">>}],
      [word |-> <<"c", "o", "m", "m", "u", "n", "i", "t", "y">>,
       topics |-> {<<"s", "o", "c", "i", "a", "l", "_", "i", "m", "p", "a", "c", "t">>, <<"r", "e", "l", "a", "t", "i", "o", "n", "s", "h", "i", "p", "s">>}],
      [word |-> <<"f", "i", "t", "n", "e", "s", "s">>,
       topics |-> {<<"h", "e", "a", "l", "t", "h">>}],
      [word |-> <<"a", "r", "t", "i", "s", "t">>,
       topics |-> {<<"c", "u", "l", "t", "u", "r", "e">>}],
      [word |-> <<"c", "a", "r", "t">>,
       topics |-> {}],
      [word |-> <<"t", "e", "a", "m">>,
       topics |-> {<<"s", "p", "o", "r", "t", "s">>}] }

TopicSummaries == {<<>>, <<[word |-> <<"t", "e", "a", "m">>, topics |-> {<<"s", "p", "o", "r", "t", "s">>}]>>, <<[word |-> <<"S", "t", "a", "r", "t", "u", "p">>,
                             topics |-> {<<"t", "e", "c", "h", "n", "o", "l", "o", "g", "y">>, <<"b", "u", "s", "i", "n", "e", "s", "s">>}]>>}

TopicCalls ==
    { [fn |-> "get_topic_and_icon", title_words |-> tw, summary_words |-> sw,
       title |-> Join([i \in 1..Len(tw) |-> tw[i].word], sep),
       summary |-> Join([i \in 1..Len(sw) |-> sw[i].word], sep)] :
          tw \in SeqsUpTo(TopicWords, MaxTopicWords), sw \in TopicSummaries,
          sep \in { <<" ">>, <<"-">> } }

InitTopic == InitCalls(TopicCalls)

\* The call get_topic_and_icon(title, summary) and its return.
ClassifyTopic ==
    /\ call_in.fn = "get_topic_and_icon"
    /\ ~call_out.done
    /\ call_out' = [done |-> TRUE, topic |-> get_topic_and_icon(call_in.title, call_in.summary)]
    /\ UNCHANGED <<call_in, pipeVars, dedupVars>>

NextTopic == ClassifyTopic

SpecTopic == InitTopic /\ [][NextTopic]_vars

\* The topics in the order of the keyword table, and the whole vocabulary.
TopicOrder ==
    << <<"t", "e", "c", "h", "n", "o", "l", "o", "g", "y">>,
       <<"s", "c", "i", "e", "n", "c", "e">>,
       <<"b", "u", "s", "i", "n", "e", "s", "s">>,
       <<"h", "e", "a", "l", "t", "h">>,
       <<"e", "n", "v", "i", "r", "o", "n", "m", "e", "n", "t">>,
       <<"p", "e", "r", "s", "o", "n", "a", "l", "_", "g", "r", "o", "w", "t", "h">>,
       <<"s", "o", "c", "i", "a", "l", "_", "i", "m", "p", "a", "c", "t">>,
       <<"c", "u", "l", "t", "u", "r", "e">>,
       <<"t", "r", "a", "v", "e", "l">>,
       <<"r", "e", "l", "a", "t", "i", "o", "n", "s", "h", "i", "p", "s">>,
       <<"s", "p", "o", "r", "t", "s">> >>

TopicVocabulary == Range(TopicOrder) \cup {<<"g", "e", "n", "e", "r", "a", "l">>}

\* How many words of the call count for the topic.
WordCount(topic) ==
    LET words == call_in.title_words \o call_in.summary_words
    IN Cardinality({i \in 1..Len(words) : topic \in words[i].topics})

\* C22: get_topic_and_icon returns the topic with the highest count of whole-word
\* keyword occurrences, the first of the keyword table among several with that
\* count, and "general" with the icon of "good news" when every count is zero; the
\* topic returned is one of the fixed vocabulary.
C22_TopicByKeywordCount ==
    call_out.done =>
        /\ call_out.topic.topic_name \in TopicVocabulary
        /\ IF \A k \in 1..Len(TopicOrder) : WordCount(TopicOrder[k]) = 0
           THEN /\ call_out.topic.topic_name = <<"g", "e", "n", "e", "r", "a", "l">>
                /\ call_out.topic.icon_key = <<"g", "o", "o", "d", " ", "n", "e", "w", "s">>
           ELSE \E k \in 1..Len(TopicOrder) :
                    /\ call_out.topic.topic_name = TopicOrder[k]
                    /\ \A j \in 1..Len(TopicOrder) :
                           WordCount(TopicOrder[j]) <= WordCount(TopicOrder[k])
                    /\ \A j \in 1..(k - 1) :
                           WordCount(TopicOrder[j]) < WordCount(TopicOrder[k])

\* C22 witness: "community" counts once for social_impact and once for
\* relationships, "team" once for sports: three topics share the highest count and
\* the first of them in the table is returned.
C22_Witness ==
    /\ call_out.done
    /\ call_in.fn = "get_topic_and_icon"
    /\ call_in.title = <<"c", "o", "m", "m", "u", "n", "i", "t", "y">>
    /\ call_in.summary = <<"t", "e", "a", "m">>
    /\ call_out.topic.topic_name = <<"s", "o", "c", "i", "a", "l", "_", "i", "m", "p", "a", "c", "t">>

(***************************************************************************)
(* The image extraction of the entry loop (aggregator.py lines 498-551).   *)
(* A URL is a text; no URL (None, or the empty string) is <<>>.            *)
(***************************************************************************)
DigitChars == Range(Digits)

IsDigit(c) == c \in DigitChars

DigitValue(c) == (CHOOSE i \in 1..Len(Digits) : Digits[i] = c) - 1

RECURSIVE DigitsValue(_)
DigitsValue(ds) ==
    IF ds = <<>> THEN 0 ELSE DigitsValue(SubSeq(ds, 1, Len(ds) - 1)) * 10 + DigitValue(ds[Len(ds)])

\* Lines 506-510: int(width) of an attribute text, 0 on ValueError. The texts are
\* digits, possibly after a sign, or not a number at all.
IntOrZero(width) ==
    LET digits == IF width # <<>> /\ width[1] \in {"-", "+"} THEN Tail(width) ELSE width
    IN IF digits = <<>> \/ \E i \in 1..Len(digits) : ~IsDigit(digits[i]) THEN 0
       ELSE IF width[1] = "-" THEN 0 - DigitsValue(digits)
       ELSE DigitsValue(digits)

\* Mutant of MediaWidth: every width reads as 0.
MediaWidthZero(media) == 0

\* Line 505: media.get('width', 0)
MediaWidth(media) == IF "width" \in DOMAIN media THEN IntOrZero(media.width) ELSE 0

\* Lines 502-514: best is [found, media, width].
RECURSIVE BestMedia(_, _, _)
BestMedia(items, i, best) ==
    IF i > Len(items) THEN best
    ELSE LET media == items[i]
             width == MediaWidth(media)
         IN IF (width > best.width \/ ~best.found) /\ "url" \in DOMAIN media
            THEN BestMedia(items, i + 1, [found |-> TRUE, media |-> media, width |-> width])
            ELSE BestMedia(items, i + 1, best)

NoMedia == [found |-> FALSE, media |-> [width |-> <<>>], width |-> 0]

\* Lines 501-516.
MediaContentUrl(e) ==
    IF "media_content" \in DOMAIN e /\ e.media_content # <<>>
    THEN LET best == BestMedia(e.media_content, 1, NoMedia)
         IN IF best.found THEN best.media.url ELSE <<>>
    ELSE <<>>

\* Lines 518-520.
MediaThumbnailUrl(e) ==
    IF /\ "media_thumbnail" \in DOMAIN e
       /\ e.media_thumbnail # <<>>
       /\ "url" \in DOMAIN e.media_thumbnail[1]
    THEN e.media_thumbnail[1].url
    ELSE <<>>

\* The first position from i on that holds the character c, Len + 1 if none.
FirstAt(text, c, i) ==
    IF \E k \in i..Len(text) : text[k] = c
    THEN CHOOSE k \in i..Len(text) : text[k] = c /\ \A j \in i..(k - 1) : text[j] # c
    ELSE Len(text) + 1

ImgOpen == <<"<", "i", "m", "g">>

SrcOpen == <<"s", "r", "c", "=", "\"">>

\* A match of <img\s+[^>]*src="([^"]+)"[^>]*> that starts at i: the last src=" before
\* the first > for which the rest matches; [ok, src, end].
ImgMatchAt(text, i) ==
    IF ~(MatchAt(text, ImgOpen, i) /\ i + 4 <= Len(text) /\ IsSpaceChar(text[i + 4]))
    THEN [ok |-> FALSE, src |-> <<>>, end |-> i]
    ELSE LET gt == FirstAt(text, ">", i + 5)
             quote(k) == FirstAt(text, "\"", k + 5)
             good == {k \in (i + 5)..(gt - 5) :
                         /\ MatchAt(text, SrcOpen, k)
                         /\ quote(k) > k + 5
                         /\ quote(k) <= Len(text)
                         /\ FirstAt(text, ">", quote(k) + 1) <= Len(text)}
         IN IF good = {} THEN [ok |-> FALSE, src |-> <<>>, end |-> i]
            ELSE LET k == CHOOSE x \in good : \A y \in good : y <= x
                 IN [ok |-> TRUE, src |-> SubSeq(text, k + 5, quote(k) - 1),
                     end |-> FirstAt(text, ">", quote(k) + 1)]

\* re.findall(r'<img\s+[^>]*src="([^"]+)"[^>]*>', text)
RECURSIVE FindImgs(_, _)
FindImgs(text, i) ==
    LET starts == {k \in i..Len(text) : ImgMatchAt(text, k).ok}
    IN IF starts = {} THEN <<>>
       ELSE LET m == ImgMatchAt(text, CHOOSE k \in starts : \A y \in starts : k <= y)
            IN <<m.src>> \o FindImgs(text, m.end + 1)

TrackingMarkers ==
    << <<"i", "c", "o", "n">>, <<"p", "i", "x", "e", "l">>, <<"t", "r", "a", "c", "k", "e", "r">>,
       <<"t", "r", "a", "c", "k", "i", "n", "g">>, <<"1", "x", "1">>, <<"b", "a", "d", "g", "e">> >>

\* Line 532.
HasTrackingMarker(img) ==
    \E k \in 1..Len(TrackingMarkers) : Contains(ToLower(img), TrackingMarkers[k])

\* The end of the run of digits that starts at i (i - 1 if there is none).
DigitRunEnd(text, i) ==
    CHOOSE j \in (i - 1)..Len(text) :
        /\ \A k \in i..j : IsDigit(text[k])
        /\ j = Len(text) \/ ~IsDigit(text[j + 1])

\* ([_-])(\d+)x(\d+)([_.-]) matched at position i.
DimsMatchAt(text, i) ==
    /\ text[i] \in {"_", "-"}
    /\ LET a == DigitRunEnd(text, i + 1)
       IN /\ a >= i + 1
          /\ a + 1 <= Len(text)
          /\ text[a + 1] = "x"
          /\ LET b == DigitRunEnd(text, a + 2)
             IN /\ b >= a + 2
                /\ b + 1 <= Len(text)
                /\ text[b + 1] \in {"_", ".", "-"}

\* Mutant of TooSmall: small only when both sides are.
TooSmallBoth(width, height) == width < 100 /\ height < 100

\* Line 538.
TooSmall(width, height) == width < 100 \/ height < 100

\* Lines 535-539: the dimensions of the first match decide.
HasSmallDims(img) ==
    /\ \E i \in 1..Len(img) : DimsMatchAt(img, i)
    /\ LET i == CHOOSE x \in 1..Len(img) :
                    DimsMatchAt(img, x) /\ \A y \in 1..(x - 1) : ~DimsMatchAt(img, y)
           a == DigitRunEnd(img, i + 1)
           b == DigitRunEnd(img, a + 2)
       IN TooSmall(DigitsValue(SubSeq(img, i + 1, a)), DigitsValue(SubSeq(img, a + 2, b)))

\* Mutant of AcceptableImg: every embedded image is taken.
AcceptableImgAlways(img) == TRUE

\* Lines 532-539.
AcceptableImg(img) == ~HasTrackingMarker(img) /\ ~HasSmallDims(img)

\* Lines 531-541: the first img of the list that is not skipped.
FirstAcceptableImg(imgs) ==
    IF \E i \in 1..Len(imgs) : AcceptableImg(imgs[i])
    THEN imgs[CHOOSE i \in 1..Len(imgs) :
                  AcceptableImg(imgs[i]) /\ \A j \in 1..(i - 1) : ~AcceptableImg(imgs[j])]
    ELSE <<>>

ContentFields == <<"content", "description", "summary">>

\* Lines 525-528: the text searched for the field, <<>> if the field is skipped.
\* content is a list of records, the other fields are texts.
FieldText(e, field) ==
    IF field \notin DOMAIN e \/ e[field] = <<>> THEN <<>>
    ELSE IF field = "content" THEN GetField(e[field][1], "value", <<>>)
    ELSE e[field]

\* Lines 523-543.
RECURSIVE EmbeddedImgUrl(_, _)
EmbeddedImgUrl(e, f) ==
    IF f > Len(ContentFields) THEN <<>>
    ELSE LET img == FirstAcceptableImg(FindImgs(FieldText(e, ContentFields[f]), 1))
         IN IF img # <<>> THEN img ELSE EmbeddedImgUrl(e, f + 1)

\* urlparse(link).netloc for the links of the entries.
Netloc(link) ==
    IF link \in {"https://news.example/a", "https://news.example/removed"}
    THEN <<"n", "e", "w", "s", ".", "e", "x", "a", "m", "p", "l", "e">>
    ELSE <<>>

PlaceholderUrl(topic_name) ==
    <<"/", "s", "t", "a", "t", "i", "c", "/", "p", "l", "a", "c", "e", "h", "o", "l", "d", "e", "r", "s", "/">>
        \o ToLower(topic_name) \o <<".", "j", "p", "g">>

FaviconUrl(link) ==
    <<"h", "t", "t", "p", "s", ":", "/", "/", "w", "w", "w", ".", "g", "o", "o", "g", "l", "e", ".", "c", "o", "m", "/", "s", "2", "/", "f", "a", "v", "i", "c", "o", "n", "s", "?", "d", "o", "m", "a", "i", "n", "=">>
        \o Netloc(link) \o <<"&", "s", "z", "=", "1", "2", "8">>

\* Lines 545-551; placeholders are the topics whose placeholder file exists.
FallbackUrl(link, topic_name, placeholders) ==
    IF ToLower(topic_name) \in placeholders THEN PlaceholderUrl(topic_name) ELSE FaviconUrl(link)

\* Lines 498-551: [image_url, step], step the step of the chain that gave the URL.
ResolveImage(e, topic_name, placeholders) ==
    LET media == MediaContentUrl(e)
        thumb == MediaThumbnailUrl(e)
        img == EmbeddedImgUrl(e, 1)
    IN IF media # <<>> THEN [image_url |-> media, step |-> "media_content"]
       ELSE IF thumb # <<>> THEN [image_url |-> thumb, step |-> "media_thumbnail"]
       ELSE IF img # <<>> THEN [image_url |-> img, step |-> "img"]
       ELSE [image_url |-> FallbackUrl(e.link, topic_name, placeholders),
             step |-> IF ToLower(topic_name) \in placeholders THEN "placeholder" ELSE "favicon"]

\* Line 576: article['tags'] = classify_article_tags(article)
WithTags(article) ==
    [f \in DOMAIN article \cup {"tags"} |->
        IF f = "tags" THEN classify_article_tags(article) ELSE article[f]]

\* Lines 553-576: the article dict built from the values computed for the entry.
ArticleOf(e, url, title, summary, text, topic, inspiration, image) ==
    [article |-> WithTags(
                     [title |-> title, link |-> e.link, summary |-> summary,
                      published |-> GetField(e, "published", 0),
                      sentiment_score |-> get_positive_sentiment_score(text, e.compound),
                      inspiration_score |-> inspiration.composite,
                      inspiration_dimensions |-> inspiration,
                      is_inspirational |-> TRUE, source_feed |-> url,
                      topic_name |-> topic.topic_name, topic_icon_path |-> topic.icon_key,
                      image_url |-> image.image_url]),
     image_step |-> image.step]

\* Lines 495-551: the topic, then the score and the image that needs the topic.
ArticleOfText(e, url, placeholders, tie_up, title, summary, text, topic) ==
    ArticleOf(e, url, title, summary, text, topic,
              score_inspiration_with_llm(text, e.compound, tie_up),
              ResolveImage(e, topic.topic_name, placeholders))

\* Lines 489-495.
ArticleOfFields(e, url, placeholders, tie_up, title, summary) ==
    ArticleOfText(e, url, placeholders, tie_up, title, summary,
                  CombinedText(title, summary), get_topic_and_icon(title, summary))

\* Lines 477-576: the article made of an entry that passed the checks, and the
\* step of the image chain that gave its image.
BuildArticle(e, url, placeholders, tie_up) ==
    ArticleOfFields(e, url, placeholders, tie_up, GetField(e, "title", <<>>), EntrySummary(e))

(***************************************************************************)
(* One feed entry taken through the body of the entry loop on its own.     *)
(* call_in holds the entry, the words its title and summary were written   *)
(* from, and the placeholder files present on disk.                        *)
(***************************************************************************)
MaxTitleWords == 2

FilterWords ==
    { <<"E", "l", "e", "c", "t", "i", "o", "n">>,
      <<"s", "e", "l", "e", "c", "t", "i", "o", "n">>,
      <<"h", "e", "r", "o">>,
      <<"h", "e", "r", "o", "e", "s">>,
      <<"a", "w", "a", "r", "d">> }

WordSeparators == { <<" ">>, <<"-">> }

\* The analyser's compound (times 100) for the entry's text.
FilterCompounds == {80, 82}

\* Summaries of no word or of one word.
SummaryWordLists == {<<>>} \cup {<<w>> : w \in FilterWords}

EntryLinks == {"", "https://news.example/a", "https://news.example/removed"}

FilterCalls ==
    { [fn |-> "entry",
       entry |-> [title |-> Join(tw, sep), summary |-> Join(sw, sep), link |-> link, compound |-> c,
                 tie_up |-> FALSE],
       title_words |-> tw, summary_words |-> sw, placeholders |-> {}] :
          tw \in SeqsUpTo(FilterWords, MaxTitleWords), sw \in SummaryWordLists,
          sep \in WordSeparators, c \in FilterCompounds, link \in EntryLinks }

\* Entries without a title or a link field at all, and one with a description only.
PartialEntryCalls ==
    { [fn |-> "entry", entry |-> [link |-> "https://news.example/a", compound |-> 82, tie_up |-> FALSE],
       title_words |-> <<>>, summary_words |-> <<>>, placeholders |-> {}],
      [fn |-> "entry", entry |-> [title |-> <<"h", "e", "r", "o">>, compound |-> 82, tie_up |-> FALSE],
       title_words |-> <<<<"h", "e", "r", "o">>>>, summary_words |-> <<>>, placeholders |-> {}],
      [fn |-> "entry",
       entry |-> [title |-> <<"s", "e", "l", "e", "c", "t", "i", "o", "n">>, description |-> <<"h", "e", "r", "o">>,
                  link |-> "https://news.example/a", compound |-> 80, tie_up |-> FALSE],
       title_words |-> <<<<"s", "e", "l", "e", "c", "t", "i", "o", "n">>>>,
       summary_words |-> <<<<"h", "e", "r", "o">>>>, placeholders |-> {}] }

FeedUrl == "https://feeds.example/rss"

\* r1 with the fields of r2 added or replaced.
Merge(r1, r2) ==
    [f \in DOMAIN r1 \cup DOMAIN r2 |-> IF f \in DOMAIN r2 THEN r2[f] ELSE r1[f]]

UrlA == <<"h", "t", "t", "p", ":", "/", "/", "x", "/", "a", ".", "j", "p", "g">>

UrlB == <<"h", "t", "t", "p", ":", "/", "/", "x", "/", "b", ".", "j", "p", "g">>

UrlT == <<"h", "t", "t", "p", ":", "/", "/", "x", "/", "t", ".", "j", "p", "g">>

\* media_content of an entry, with the URL the first step of the chain is to give
\* (expect): the widest item among those with a url attribute, <<>> if that is no URL.
MediaContentOptions ==
    { [fields |-> <<>>, expect |-> <<>>],
      [fields |-> [media_content |-> <<>>], expect |-> <<>>],
      [fields |-> [media_content |-> << [url |-> UrlA, width |-> <<"6", "4", "0">>],
                                        [url |-> UrlB, width |-> <<"8", "0", "0">>] >>],
       expect |-> UrlB],
      [fields |-> [media_content |-> << [width |-> <<"9", "0", "0">>],
                                        [url |-> UrlA, width |-> <<"w", "i", "d", "e">>] >>],
       expect |-> UrlA],
      [fields |-> [media_content |-> << [url |-> <<>>, width |-> <<"9", "0", "0">>],
                                        [url |-> UrlA, width |-> <<"1", "0", "0">>] >>],
       expect |-> <<>>],
      [fields |-> [media_content |-> << [url |-> UrlA],
                                        [url |-> UrlB, width |-> <<"-", "5">>] >>],
       expect |-> UrlA] }

MediaThumbnailOptions ==
    { [fields |-> <<>>, expect |-> <<>>],
      [fields |-> [media_thumbnail |-> << [url |-> UrlT] >>], expect |-> UrlT],
      [fields |-> [media_thumbnail |-> << [width |-> <<"7", "5">>], [url |-> UrlT] >>],
       expect |-> <<>>] }

Html1 ==
    <<"<", "i", "m", "g", " ", "s", "r", "c", "=", "\"", "h", "t", "t", "p", ":", "/", "/",
      "x", "/", "t", "r", "a", "c", "k", "e", "r", "_", "p", "i", "x", "e", "l", ".", "p",
      "n", "g", "\"", ">">>

Html2 ==
    <<"L", "o", "o", "k", " ", "<", "i", "m", "g", " ", "a", "l", "t", "=", "\"", "a", "\"",
      " ", "s", "r", "c", "=", "\"", "h", "t", "t", "p", ":", "/", "/", "x", "/", "B", "a",
      "d", "g", "e", ".", "p", "n", "g", "\"", ">", " ", "<", "i", "m", "g", " ", "s", "r",
      "c", "=", "\"", "h", "t", "t", "p", ":", "/", "/", "x", "/", "p", "h", "o", "t", "o",
      "_", "5", "0", "x", "5", "0", ".", "j", "p", "g", "\"", ">", "<", "i", "m", "g", " ",
      "s", "r", "c", "=", "\"", "h", "t", "t", "p", ":", "/", "/", "x", "/", "p", "h", "o",
      "t", "o", ".", "j", "p", "g", "\"", ">">>

Html3 ==
    <<"<", "i", "m", "g", " ", "s", "r", "c", "=", "\"", "h", "t", "t", "p", ":", "/", "/",
      "x", "/", "1", "x", "1", ".", "g", "i", "f", "\"", ">">>

Html4 ==
    <<"<", "i", "m", "g", " ", "c", "l", "a", "s", "s", "=", "\"", "c", "\"", " ", "s", "r",
      "c", "=", "\"", "h", "t", "t", "p", ":", "/", "/", "x", "/", "d", "_", "6", "4", "0",
      "x", "4", "8", "0", ".", "j", "p", "g", "\"", " ", "/", ">">>

Html5 ==
    <<"<", "i", "m", "g", " ", "s", "r", "c", "=", "'", "h", "t", "t", "p", ":", "/", "/",
      "x", "/", "s", "i", "n", "g", "l", "e", ".", "j", "p", "g", "'", ">">>

Html6 ==
    <<"<", "i", "m", "g", " ", "d", "a", "t", "a", "-", "s", "r", "c", "=", "\"", "h", "t",
      "t", "p", ":", "/", "/", "x", "/", "l", "a", "z", "y", ".", "j", "p", "g", "\"", " ",
      "s", "r", "c", "=", "\"", "h", "t", "t", "p", ":", "/", "/", "x", "/", "r", "e", "a",
      "l", ".", "j", "p", "g", "\"", ">">>

Html7 ==
    <<"<", "i", "m", "g", " ", "s", "r", "c", "=", "\"", "h", "t", "t", "p", ":", "/", "/",
      "x", "/", "I", "C", "O", "N", ".", "p", "n", "g", "\"", ">">>

Html8 ==
    <<"<", "i", "m", "g", " ", " ", "w", "i", "d", "t", "h", "=", "\"", "1", "\"", " ", "s",
      "r", "c", "=", "\"", "h", "t", "t", "p", ":", "/", "/", "x", "/", "t", "r", "a", "c",
      "k", "i", "n", "g", "/", "1", ".", "g", "i", "f", "\"", ">">>

\* The content fields of an entry, with the URL the third step is to give (expect),
\* the URLs that carry a tracking or icon marker (tracking), and whether the fields
\* embed images and all of them carry such a marker (only_tracking).
ContentOptions ==
    { [fields |-> <<>>, expect |-> <<>>, tracking |-> {}, only_tracking |-> FALSE],
      [fields |-> [summary |-> Html1], expect |-> <<>>,
       tracking |-> {<<"h", "t", "t", "p", ":", "/", "/", "x", "/", "t", "r", "a", "c", "k", "e",
                    "r", "_", "p", "i", "x", "e", "l", ".", "p", "n", "g">>},
       only_tracking |-> TRUE],
      [fields |-> [summary |-> Html2],
       expect |-> <<"h", "t", "t", "p", ":", "/", "/", "x", "/", "p", "h", "o", "t", "o", ".",
                   "j", "p", "g">>,
       tracking |-> {<<"h", "t", "t", "p", ":", "/", "/", "x", "/", "B", "a", "d", "g", "e", ".",
                    "p", "n", "g">>},
       only_tracking |-> FALSE],
      [fields |-> [content |-> << [value |-> Html3] >>, description |-> Html4],
       expect |-> <<"h", "t", "t", "p", ":", "/", "/", "x", "/", "d", "_", "6", "4", "0", "x",
                   "4", "8", "0", ".", "j", "p", "g">>,
       tracking |-> {<<"h", "t", "t", "p", ":", "/", "/", "x", "/", "1", "x", "1", ".", "g", "i",
                    "f">>},
       only_tracking |-> FALSE],
      [fields |-> [summary |-> Html5], expect |-> <<>>, tracking |-> {}, only_tracking |-> FALSE],
      [fields |-> [content |-> << [value |-> Html6] >>],
       expect |-> <<"h", "t", "t", "p", ":", "/", "/", "x", "/", "r", "e", "a", "l", ".", "j",
                   "p", "g">>,
       tracking |-> {}, only_tracking |-> FALSE],
      [fields |-> [content |-> << [value |-> Html7] >>, summary |-> Html8], expect |-> <<>>,
       tracking |-> {<<"h", "t", "t", "p", ":", "/", "/", "x", "/", "I", "C", "O", "N", ".", "p",
                    "n", "g">>,
                     <<"h", "t", "t", "p", ":", "/", "/", "x", "/", "t", "r", "a", "c", "k",
                       "i", "n", "g", "/", "1", ".", "g", "i", "f">>},
       only_tracking |-> TRUE] }

\* The placeholder files on disk: none, or the one of the topic "general".
ImagePlaceholders == { {}, {<<"g", "e", "n", "e", "r", "a", "l">>} }

ImageCalls ==
    { [fn |-> "entry",
       entry |-> Merge(Merge(Merge([title |-> <<"h", "e", "r", "o">>,
                                    link |-> "https://news.example/a", compound |-> 80,
                                    tie_up |-> FALSE],
                                   mc.fields), mt.fields), cf.fields),
       media_content |-> mc, media_thumbnail |-> mt, content |-> cf, placeholders |-> ph] :
          mc \in MediaContentOptions, mt \in MediaThumbnailOptions, cf \in ContentOptions,
          ph \in ImagePlaceholders }

\* Sides of an image as they are written in a URL, with their values.
DimSizes ==
    { [text |-> <<"5", "0">>, value |-> 50],
      [text |-> <<"9", "9">>, value |-> 99],
      [text |-> <<"1", "0", "0">>, value |-> 100],
      [text |-> <<"6", "4", "0">>, value |-> 640] }

\* http://x/p_WxH.jpg
DimsUrl(w, h) ==
    <<"h", "t", "t", "p", ":", "/", "/", "x", "/", "p", "_">>
        \o w.text \o <<"x">> \o h.text \o <<".", "j", "p", "g">>

\* Entries without media fields whose summary is one <img> of a URL that encodes the
\* sides of the image, with the URL and the sides.
DimsCalls ==
    { [fn |-> "entry",
       entry |-> [title |-> <<"h", "e", "r", "o">>, link |-> "https://news.example/a",
                  compound |-> 80, tie_up |-> FALSE,
                  summary |-> <<"<", "i", "m", "g", " ", "s", "r", "c", "=", "\"">>
                                  \o DimsUrl(w, h) \o <<"\"", ">">>],
       dims |-> [url |-> DimsUrl(w, h), width |-> w.value, height |-> h.value],
       placeholders |-> ph] :
          w \in DimSizes, h \in DimSizes, ph \in ImagePlaceholders }

ScenarioTitleWords ==
    << <<"L", "o", "c", "a", "l">>,
       <<"h", "e", "r", "o">>,
       <<"r", "e", "s", "c", "u", "e", "d">>,
       <<"a">>,
       <<"c", "a", "t">>,
       <<"f", "r", "o", "m">>,
       <<"a">>,
       <<"b", "r", "e", "a", "k", "t", "h", "r", "o", "u", "g", "h">>,
       <<"f", "i", "r", "e">> >>

ScenarioSummaryWords ==
    << <<"C", "o", "m", "m", "u", "n", "i", "t", "y">>,
       <<"c", "e", "l", "e", "b", "r", "a", "t", "e", "d">> >>

\* What the analyser may answer for the scenario's text (times 100).
ScenarioCompounds == {-100, -41, -40, 0, 83, 100}

ScenarioCalls ==
    { [fn |-> "entry", scenario |-> TRUE,
       entry |-> [title |-> Join(ScenarioTitleWords, <<" ">>),
                  summary |-> Join(ScenarioSummaryWords, <<" ">>),
                  link |-> "https://news.example/a", published |-> 5, compound |-> c,
                  tie_up |-> tie_up],
       title_words |-> ScenarioTitleWords, summary_words |-> ScenarioSummaryWords,
       placeholders |-> ph] :
          c \in ScenarioCompounds, tie_up \in BOOLEAN, ph \in { {}, {<<"s", "c", "i", "e", "n", "c", "e">>} } }

EntryCalls ==
    FilterCalls \cup PartialEntryCalls \cup ImageCalls \cup ScenarioCalls \cup DimsCalls

InitEntry == InitCalls(EntryCalls)

\* What the entry leaves behind: its verdict and, if admitted, its article.
EntryReturn(verdict, built) ==
    IF verdict = "admitted"
    THEN [done |-> TRUE, verdict |-> verdict, article |-> built.article,
          image_step |-> built.image_step]
    ELSE [done |-> TRUE, verdict |-> verdict]

\* The body of the entry loop (lines 477-576) run on the entry.
ProcessFeedEntry ==
    /\ call_in.fn = "entry"
    /\ ~call_out.done
    /\ call_out' = EntryReturn(EntryVerdict(call_in.entry, agg_removed_article_links),
                               BuildArticle(call_in.entry, FeedUrl, call_in.placeholders,
                                            call_in.entry.tie_up))
    /\ UNCHANGED <<call_in, pipeVars, dedupVars>>

NextEntry == ProcessFeedEntry

SpecEntry == InitEntry /\ [][NextEntry]_vars

(***************************************************************************)
(* Properties of the filter.                                               *)
(***************************************************************************)
EntryDone == call_in.fn = "entry" /\ call_out.done

\* The entry's title and summary were written from given words.
WordsDone == EntryDone /\ "title_words" \in DOMAIN call_in

LowerWords(words) == {ToLower(words[i]) : i \in 1..Len(words)}

\* One of the words the text was written from is a keyword of the list.
HasKeywordWord(words, keywords) == LowerWords(words) \cap Range(keywords) # {}

EntryWords == call_in.title_words \o call_in.summary_words

\* C11: an entry with non-empty title and link, a link that is not removed and no
\* negative keyword in title or summary is admitted exactly when its sentiment score
\* is strictly above POSITIVE_THRESHOLD or its text holds a positive keyword as a
\* whole word; an entry with an empty or missing title or link is never admitted.
C11_FilterAdmissionRule ==
    WordsDone =>
        LET e == call_in.entry
            valid == /\ GetField(e, "title", <<>>) # <<>>
                     /\ GetField(e, "link", "") # ""
        IN /\ ~valid => call_out.verdict # "admitted"
           /\ (/\ valid
               /\ e.link \notin RemovedLinks
               /\ ~HasKeywordWord(EntryWords, NEGATIVE_KEYWORDS))
                  => (call_out.verdict = "admitted"
                        <=> (\/ e.compound > POSITIVE_THRESHOLD
                             \/ HasKeywordWord(EntryWords, POSITIVE_KEYWORDS)))

\* C11 witness: an entry at exactly the threshold (0.80, not above it) that is
\* admitted all the same, for the positive keyword "award" in its summary.
C11_Witness ==
    /\ WordsDone
    /\ call_in.entry.compound = POSITIVE_THRESHOLD
    /\ call_in.title_words = <<<<"s", "e", "l", "e", "c", "t", "i", "o", "n">>>>
    /\ call_in.summary_words = <<<<"a", "w", "a", "r", "d">>>>
    /\ call_out.verdict = "admitted"

\* C12: an entry with the negative keyword "election" as a whole word in its title
\* or summary is rejected whatever its sentiment score and its positive keywords;
\* a word that only contains a negative keyword ("selection", "award") does not
\* get an otherwise valid entry rejected: it is admitted when it is positive.
C12_NegativeKeywordWholeWord ==
    WordsDone =>
        LET e == call_in.entry
        IN /\ <<"e", "l", "e", "c", "t", "i", "o", "n">> \in LowerWords(EntryWords)
                  => call_out.verdict # "admitted"
           /\ (/\ <<"s", "e", "l", "e", "c", "t", "i", "o", "n">> \in LowerWords(EntryWords)
               /\ ~HasKeywordWord(EntryWords, NEGATIVE_KEYWORDS)
               /\ GetField(e, "title", <<>>) # <<>>
               /\ GetField(e, "link", "") \notin RemovedLinks \cup {""})
                  => /\ call_out.verdict # "negative"
                     /\ (\/ e.compound > POSITIVE_THRESHOLD
                         \/ HasKeywordWord(EntryWords, POSITIVE_KEYWORDS))
                            => call_out.verdict = "admitted"

\* C12 witness: "hero-Election" with a sentiment above the threshold is rejected
\* for its negative keyword.
C12_Witness ==
    /\ WordsDone
    /\ GetField(call_in.entry, "title", <<>>) =
           <<"h", "e", "r", "o", "-", "E", "l", "e", "c", "t", "i", "o", "n">>
    /\ call_in.entry.compound > POSITIVE_THRESHOLD
    /\ call_in.entry.link = "https://news.example/a"
    /\ call_out.verdict = "negative"

(***************************************************************************)
(* Properties of the image extraction and of the whole entry.              *)
(***************************************************************************)
Admitted == EntryDone /\ call_out.verdict = "admitted"

\* The entry is one of those made of media, thumbnail and content options.
ImageDone == Admitted /\ "content" \in DOMAIN call_in

NoMediaFields ==
    /\ DOMAIN call_in.media_content.fields = {}
    /\ DOMAIN call_in.media_thumbnail.fields = {}

FaviconOfNewsExample ==
    <<"h", "t", "t", "p", "s", ":", "/", "/", "w", "w", "w", ".", "g", "o", "o", "g", "l",
      "e", ".", "c", "o", "m", "/", "s", "2", "/", "f", "a", "v", "i", "c", "o", "n", "s",
      "?", "d", "o", "m", "a", "i", "n", "=", "n", "e", "w", "s", ".", "e", "x", "a", "m",
      "p", "l", "e", "&", "s", "z", "=", "1", "2", "8">>

PlaceholderOfGeneral ==
    <<"/", "s", "t", "a", "t", "i", "c", "/", "p", "l", "a", "c", "e", "h", "o", "l", "d",
      "e", "r", "s", "/", "g", "e", "n", "e", "r", "a", "l", ".", "j", "p", "g">>

PlaceholderOfScience ==
    <<"/", "s", "t", "a", "t", "i", "c", "/", "p", "l", "a", "c", "e", "h", "o", "l", "d",
      "e", "r", "s", "/", "s", "c", "i", "e", "n", "c", "e", ".", "j", "p", "g">>

\* C15 as stated: with no media_content and no media_thumbnail and only embedded
\* images that carry a tracking or icon marker, none of those URLs is selected and
\* the image is the favicon-service URL of the link's domain.
C15_TrackingImgsFallToFavicon ==
    (ImageDone /\ NoMediaFields /\ call_in.content.only_tracking) =>
        /\ call_out.article.image_url \notin call_in.content.tracking
        /\ call_out.article.image_url = FaviconOfNewsExample

\* C15 amended: with no media_content and no media_thumbnail and only embedded
\* images that carry a tracking or icon marker, none of those URLs is selected and
\* the image is the topic's placeholder if that file exists, the favicon-service
\* URL of the link's domain otherwise.
C15_TrackingImgsFallThrough ==
    (ImageDone /\ NoMediaFields /\ call_in.content.only_tracking) =>
        /\ call_out.article.image_url \notin call_in.content.tracking
        /\ call_out.article.image_url =
               IF call_in.placeholders = {} THEN FaviconOfNewsExample ELSE PlaceholderOfGeneral

\* C15 witness: the summary is <img src="http://x/tracker_pixel.png"> alone, there is
\* no media field and no placeholder file, and the image is the favicon URL.
C15_Witness ==
    /\ ImageDone
    /\ NoMediaFields
    /\ call_in.content.fields = [summary |-> Html1]
    /\ call_in.placeholders = {}
    /\ call_out.article.image_url = FaviconOfNewsExample
    /\ call_out.image_step = "favicon"

\* C16: every admitted entry gets exactly one non-empty image URL, that of the first
\* step that gives one in the order: widest media_content item with a url, first
\* media_thumbnail url, first acceptable embedded img src, topic placeholder if
\* the file exists, favicon-service URL.
C16_ImageChain ==
    Admitted =>
        /\ call_out.article.image_url # <<>>
        /\ "content" \in DOMAIN call_in =>
               call_out.article.image_url =
                   IF call_in.media_content.expect # <<>> THEN call_in.media_content.expect
                   ELSE IF call_in.media_thumbnail.expect # <<>>
                        THEN call_in.media_thumbnail.expect
                   ELSE IF call_in.content.expect # <<>> THEN call_in.content.expect
                   ELSE IF call_in.placeholders # {} THEN PlaceholderOfGeneral
                   ELSE FaviconOfNewsExample

\* C16 witness: media_content with the widest item second, a thumbnail and an
\* acceptable embedded image all present: the widest media item is taken.
C16_Witness ==
    /\ ImageDone
    /\ call_in.media_content.expect = UrlB
    /\ call_in.media_thumbnail.expect = UrlT
    /\ call_in.content.expect # <<>>
    /\ call_out.article.image_url = UrlB
    /\ call_out.image_step = "media_content"

ScenarioDone == EntryDone /\ "scenario" \in DOMAIN call_in

TagNames(tags) == {tags[i].name : i \in 1..Len(tags)}

DimsDone == Admitted /\ "dims" \in DOMAIN call_in

\* C23 as stated: an embedded URL that encodes the sides WxH is skipped exactly when
\* both W and H are below 100; with only one of them below 100 it is selected.
C23_SkippedWhenBothSmall ==
    DimsDone =>
        (call_out.article.image_url # call_in.dims.url
            <=> (call_in.dims.width < 100 /\ call_in.dims.height < 100))

\* C23 amended: an embedded URL that encodes the sides WxH is skipped exactly when
\* W or H is below 100; it is selected only when both are 100 or more.
C23_SkippedWhenEitherSmall ==
    DimsDone =>
        /\ call_out.article.image_url # call_in.dims.url
               <=> (call_in.dims.width < 100 \/ call_in.dims.height < 100)
        /\ call_out.image_step = "img"
               <=> (call_in.dims.width >= 100 /\ call_in.dims.height >= 100)

\* C23 witness: http://x/p_640x99.jpg has one side below 100 and is skipped; the
\* image is the favicon URL.
C23_Witness ==
    /\ DimsDone
    /\ call_in.dims.width = 640
    /\ call_in.dims.height = 99
    /\ call_in.placeholders = {}
    /\ call_out.article.image_url = FaviconOfNewsExample

\* The tag of each phrase of the titles classified, in the order of the rules.
TagNameOfPhrase ==
    <<"Heartwarming", "Uplifting", "Motivating", "Calming", "Breakthrough", "Success Story",
      "Community", "Acts of Kindness", "Health Innovation", "Mental Health", "Eco-Friendly",
      "Educational", "Problem Solver">>

\* The phrases of the title whose rule fires: the rule's condition on the topic holds.
PhrasesThatFire ==
    {k \in call_in.picked \cap (1..13) :
        /\ k \in {4, 9} => call_in.article.topic_name = <<"h", "e", "a", "l", "t", "h">>
        /\ k = 11 => call_in.article.topic_name =
                         <<"e", "n", "v", "i", "r", "o", "n", "m", "e", "n", "t">>}

\* The article has its texts and its score.
TagsDone ==
    /\ call_in.fn = "classify_article_tags"
    /\ call_out.done
    /\ DOMAIN call_in.article = {"title", "summary", "topic_name", "inspiration_score"}
    /\ call_in.article.summary # None

WriteFailed(outcome) == outcome \in {"open_failed", "dump_failed"}

\* C25: a failed write of the cache file, incremental or final, does not end the run:
\* after a failed incremental write the loop is at the next feed, after the final
\* save the function has returned whatever the write did; the store returned holds
\* the loaded cache and every admission of the run; and a write that succeeds puts
\* the whole store of the run into the file.
C25_BestEffortPersistence ==
    /\ [](\A t \in Threads :
              /\ WriteFailed(last_feed[t].wrote) =>
                     /\ pc[t] \in {"feeds", "returned"}
                     /\ url_index[t] = last_feed[t].url_index + 1
              /\ final_write[t] # "none" => pc[t] = "returned"
              /\ pc[t] = "returned" =>
                     /\ AllArticles(loaded[t]) \subseteq AllArticles(articles_by_topic[t])
                     /\ admitted[t] \subseteq Links(articles_by_topic[t])
                     /\ Links(articles_by_topic[t]) = Links(loaded[t]) \cup admitted[t])
    /\ [][\A t \in Threads :
              /\ (last_feed'[t] # last_feed[t] /\ last_feed'[t].wrote = "ok") =>
                     cache_file' = [state |-> "ok", store |-> articles_by_topic'[t]]
              /\ (final_write'[t] # final_write[t] /\ final_write'[t] = "ok") =>
                     /\ cache_file' = [state |-> "ok", store |-> articles_by_topic'[t]]
                     /\ Links(cache_file'.store) = Links(loaded[t]) \cup admitted[t]]_vars

\* C25 witness: the incremental write after the last feed failed, the run went on
\* to the final save, which succeeded, and the file holds what the run admitted.
C25_Witness ==
    \E t \in Threads :
        /\ pc[t] = "returned"
        /\ last_feed[t].url_index = Len(FEED_URLS)
        /\ WriteFailed(last_feed[t].wrote)
        /\ final_write[t] = "ok"
        /\ admitted[t] # {}
        /\ cache_file.state = "ok"
        /\ admitted[t] \subseteq Links(cache_file.store)

\* C26: every store written to the cache file, by an incremental or by the final
\* save, has every bucket in descending order of (is_inspirational,
\* inspiration_score, published), also when the last feed raised after some of its
\* entries had been appended.
C26_WrittenStoresSorted ==
    cache_file.state = "ok" => AllSorted(cache_file.store)

(***************************************************************************)
(* The refresh worker with the globals of main.py and the permanent cache, *)
(* and the bootstrap script. One refresh thread is followed; the script    *)
(* runs in a process of its own while no refresh is under way.             *)
(***************************************************************************)
RefreshThread == "t1"

\* The server process starts: Restart, and initialize_app (main.py lines 399-420)
\* sets the globals from the permanent cache or, without one, from the static cache.
ServerStart ==
    /\ removed_article_links' = Range(removed_file)
    /\ agg_removed_article_links' = Range(removed_file)
    /\ same_object' = TRUE
    /\ cache_refresh_running' = FALSE
    /\ pc' = [t \in Threads |-> "idle"]
    /\ articles_by_topic' = [t \in Threads |-> EmptyStore]
    /\ url_index' = [t \in Threads |-> 0]
    /\ last_feed' = [t \in Threads |-> NoFeed]
    /\ loaded' = [t \in Threads |-> EmptyStore]
    /\ removed_at_start' = [t \in Threads |-> {}]
    /\ added_before' = [t \in Threads |-> {}]
    /\ admitted' = [t \in Threads |-> {}]
    /\ handler' = [r \in Requests |-> NoRequest]
    /\ final_write' = [t \in Threads |-> "none"]
    /\ caller' = [t \in Threads |-> "none"]
    /\ main_articles_by_topic' = StartupGlobals(permanent_cache, cache_file).store
    /\ last_updated' = StartupGlobals(permanent_cache, cache_file).stamp
    /\ UNCHANGED <<cache_file, removed_file, add_ok, dd_in, dd_out, call_in, call_out,
                   permanent_cache>>

\* bootstrap_cache.py lines 9-11 and 86-89: the script imports the modules and calls
\* fetch_and_filter_feeds.
BootstrapStart(t) ==
    /\ \A u \in Threads : pc[u] = "idle"
    /\ pc' = [pc EXCEPT ![t] = "fetch_start"]
    /\ caller' = [caller EXCEPT ![t] = "bootstrap"]
    /\ removed_article_links' = Range(removed_file)
    /\ agg_removed_article_links' = Range(removed_file)
    /\ same_object' = TRUE
    /\ dd_in' = EmptyStore
    /\ dd_out' = DedupIdle
    /\ UNCHANGED <<cache_file, removed_file, cache_refresh_running, articles_by_topic,
                   url_index, last_feed, loaded, removed_at_start, added_before, admitted,
                   handler, add_ok, final_write, call_in, call_out, permanent_cache,
                   main_articles_by_topic, last_updated>>

\* bootstrap_cache.py lines 90-96: deduplicate_articles on the store returned
\* (lines 34-84, the same text as main.py lines 67-117).
BootstrapDedup(t) ==
    /\ pc[t] = "returned"
    /\ caller[t] = "bootstrap"
    /\ dd_in' = articles_by_topic[t]
    /\ dd_out' = [done |-> TRUE, store |-> deduplicate_articles(articles_by_topic[t])]
    /\ pc' = [pc EXCEPT ![t] = "boot_save"]
    /\ UNCHANGED <<cache_file, removed_file, removed_article_links, agg_removed_article_links,
                   same_object, cache_refresh_running, articles_by_topic, url_index,
                   last_feed, loaded, removed_at_start, added_before, admitted, handler,
                   add_ok, final_write, call_in, call_out, mainVars>>

\* bootstrap_cache.py lines 98-110: the deduplicated store is written to
\* data/article_cache.json and the script ends (with a traceback if the write
\* raised). dd_in and dd_out keep what the script computed.
BootstrapSave(t, outcome) ==
    /\ pc[t] = "boot_save"
    /\ permanent_cache' = WritePermanent(permanent_cache, dd_out.store,
                                         NextStamp(permanent_cache.last_fetched), outcome)
    /\ pc' = [pc EXCEPT ![t] = "idle"]
    /\ caller' = [caller EXCEPT ![t] = "none"]
    /\ articles_by_topic' = [articles_by_topic EXCEPT ![t] = EmptyStore]
    /\ url_index' = [url_index EXCEPT ![t] = 0]
    /\ last_feed' = [last_feed EXCEPT ![t] = NoFeed]
    /\ loaded' = [loaded EXCEPT ![t] = EmptyStore]
    /\ removed_at_start' = [removed_at_start EXCEPT ![t] = {}]
    /\ added_before' = [added_before EXCEPT ![t] = {}]
    /\ admitted' = [admitted EXCEPT ![t] = {}]
    /\ final_write' = [final_write EXCEPT ![t] = "none"]
    /\ UNCHANGED <<cache_file, removed_file, removed_article_links, agg_removed_article_links,
                   same_object, cache_refresh_running, handler, add_ok, dd_in, dd_out,
                   call_in, call_out, main_articles_by_topic, last_updated>>

\* Mutant of GotResults: an empty result replaces the globals too.
GotResultsAlways(temp) == TRUE

\* main.py line 137: the store returned is not empty and holds an article.
GotResults(temp) == temp # EmptyStore /\ TotalArticles(temp) > 0

\* refresh_cache_worker, lines 137-160: with results the globals are replaced and
\* the permanent cache is written (a failed write is logged); the finally clause
\* resets the flag and the thread ends.
WorkerPublish(t, outcome) ==
    /\ pc[t] = "returned"
    /\ caller[t] = "worker"
    /\ IF GotResults(articles_by_topic[t])
       THEN /\ main_articles_by_topic' = articles_by_topic[t]
            /\ last_updated' = NextStamp(last_updated)
            /\ permanent_cache' = WritePermanent(permanent_cache, articles_by_topic[t],
                                                 NextStamp(last_updated), outcome)
       ELSE UNCHANGED <<main_articles_by_topic, last_updated, permanent_cache>>
    /\ cache_refresh_running' = FlagAfterRun(FALSE)
    /\ pc' = [pc EXCEPT ![t] = "idle"]
    /\ caller' = [caller EXCEPT ![t] = "none"]
    /\ articles_by_topic' = [articles_by_topic EXCEPT ![t] = EmptyStore]
    /\ url_index' = [url_index EXCEPT ![t] = 0]
    /\ last_feed' = [last_feed EXCEPT ![t] = NoFeed]
    /\ loaded' = [loaded EXCEPT ![t] = EmptyStore]
    /\ removed_at_start' = [removed_at_start EXCEPT ![t] = {}]
    /\ added_before' = [added_before EXCEPT ![t] = {}]
    /\ admitted' = [admitted EXCEPT ![t] = {}]
    /\ final_write' = [final_write EXCEPT ![t] = "none"]
    /\ UNCHANGED <<cache_file, removed_file, removed_article_links, agg_removed_article_links,
                   same_object, handler, add_ok, dd_in, dd_out, call_in, call_out>>

\* refresh_cache_worker, lines 131-134 and 155-160: load_removed_articles or
\* get_feed_urls raises (they catch FileNotFoundError only); the except clause logs,
\* the finally clause resets the flag and the thread ends.
WorkerRaise(t) ==
    /\ pc[t] \in {"load_removed", "fetch_start"}
    /\ caller[t] = "worker"
    /\ cache_refresh_running' = FlagAfterRun(TRUE)
    /\ pc' = [pc EXCEPT ![t] = "idle"]
    /\ caller' = [caller EXCEPT ![t] = "none"]
    /\ UNCHANGED <<cache_file, removed_file, removed_article_links, agg_removed_article_links,
                   same_object, articles_by_topic, url_index, last_feed, loaded,
                   removed_at_start, added_before, admitted, handler, add_ok, dd_in, dd_out,
                   final_write, call_in, call_out, permanent_cache, main_articles_by_topic,
                   last_updated>>

\* The steps of the refresh thread, from its start to its end.
WorkerStep(t) ==
    \/ SetRunning(t)
    \/ WorkerLoadRemoved(t)
    \/ (caller[t] = "worker" /\ FetchLoadRemoved(t))
    \/ (caller[t] = "worker" /\ FetchLoadCache(t))
    \/ (caller[t] = "worker" /\ \E parse_ok \in BOOLEAN, outcome \in WriteOutcomes :
                                    FetchFeed(t, parse_ok, outcome))
    \/ (caller[t] = "worker" /\ \E outcome \in WriteOutcomes : FinalSave(t, outcome))
    \/ \E outcome \in WriteOutcomes : WorkerPublish(t, outcome)

\* The steps of the bootstrap script after its start.
BootstrapStep(t) ==
    \/ (caller[t] = "bootstrap" /\ FetchLoadRemoved(t))
    \/ (caller[t] = "bootstrap" /\ FetchLoadCache(t))
    \/ (caller[t] = "bootstrap" /\ \E parse_ok \in BOOLEAN, outcome \in WriteOutcomes :
                                       FetchFeed(t, parse_ok, outcome))
    \/ (caller[t] = "bootstrap" /\ \E outcome \in WriteOutcomes : FinalSave(t, outcome))
    \/ BootstrapDedup(t)
    \/ \E outcome \in WriteOutcomes : BootstrapSave(t, outcome)

NextRefresh ==
    \/ ServerStart
    \/ BootstrapStart(RefreshThread)
    \/ BootstrapStep(RefreshThread)
    \/ RefreshLoop(RefreshThread)
    \/ WorkerStep(RefreshThread)
    \/ WorkerRaise(RefreshThread)

SpecRefresh == Init /\ [][NextRefresh]_vars

\* The content hashes of the articles of a store.
ContentHashes(st) == {generate_content_hash(a) : a \in AllArticles(st)}

\* The links the bootstrap's deduplication dropped.
DroppedLinks == Links(dd_in) \ Links(dd_out.store)

\* C27: a duplicate dropped by the deduplication stays dropped: once the bootstrap
\* has written the deduplicated store to the permanent cache, a refresh run over
\* the unchanged feeds does not put a dropped article back into that cache.
C27_DuplicateStaysRemoved ==
    [][(/\ dd_out.done
        /\ permanent_cache.state = "ok"
        /\ permanent_cache.store = dd_out.store
        /\ pc[RefreshThread] = "returned"
        /\ caller[RefreshThread] = "worker")
           => DroppedLinks \cap Links(permanent_cache'.store) = {}]_vars

(***************************************************************************)
(* The removed-links list under admin requests that run together (the web  *)
(* server handles each request in a thread of its own) and reloads.        *)
(***************************************************************************)
\* Links submitted to /admin/remove-article.
SubmittedLinks == {"L1", "L4", "L7"}

\* A call of load_removed_articles, by a refresh thread or by the pipeline.
LoadRemovedCall ==
    /\ load_removed_articles
    /\ UNCHANGED <<cache_file, cache_refresh_running, pc, articles_by_topic, url_index,
                   last_feed, loaded, removed_at_start, added_before, admitted, handler,
                   add_ok, dd_in, dd_out, final_write, call_in, call_out, mainVars>>

NextRemoved ==
    \/ \E r \in Requests, link \in SubmittedLinks : AddCheck(r, link)
    \/ \E r \in Requests, io_ok \in BOOLEAN : AddAppend(r, io_ok)
    \/ LoadRemovedCall

SpecRemoved == Init /\ [][NextRemoved]_vars

\* C28: however calls of add_removed_article_link and load_removed_articles
\* interleave, no link is appended to the removed-articles file twice, and
\* whenever no call is under way the removed set in memory is the set of the
\* links of the file.
C28_AppendedOnceAndInSync ==
    /\ \A i, j \in 1..Len(removed_file) : i # j => removed_file[i] # removed_file[j]
    /\ (\A r \in Requests : handler[r].pc = "idle") =>
           removed_article_links = Range(removed_file)

(***************************************************************************)
(* The server with its refresh thread alone. A thread that was started is  *)
(* scheduled again and again and the calls it makes return (a fetch ends   *)
(* with a result or with an exception): weak fairness of its steps.        *)
(***************************************************************************)
NextWorker ==
    \/ ServerStart
    \/ RefreshLoop(RefreshThread)
    \/ WorkerStep(RefreshThread)
    \/ WorkerRaise(RefreshThread)

SpecWorkerLive ==
    /\ Init
    /\ [][NextWorker]_vars
    /\ WF_vars(WorkerStep(RefreshThread) \/ WorkerRaise(RefreshThread))

\* C29: every refresh_cache_worker that was started ends with
\* cache_refresh_running set back to False, whether the fetch gave articles, gave
\* none or raised, so that the periodic loop can start the next one.
C29_FlagEventuallyReset ==
    (pc[RefreshThread] # "idle")
        ~> (pc[RefreshThread] = "idle" /\ ~cache_refresh_running)

\* C29 witness: a worker has come to its end with results, the globals and the
\* permanent cache hold them, and the flag is False again.
C29_Witness ==
    /\ pc[RefreshThread] = "idle"
    /\ ~cache_refresh_running
    /\ permanent_cache.state = "ok"
    /\ GotResults(permanent_cache.store)
    /\ main_articles_by_topic = permanent_cache.store

\* A step in which the refresh thread comes to its end (refresh_cache_worker
\* returns), as opposed to a start of the process.
WorkerEnds ==
    /\ caller[RefreshThread] = "worker"
    /\ caller'[RefreshThread] = "none"
    /\ ~ServerStart

\* The worker has the store the pipeline returned, and it holds an article.
ReturnedArticles ==
    /\ pc[RefreshThread] = "returned"
    /\ \E i \in 1..Len(articles_by_topic[RefreshThread]) :
           Len(articles_by_topic[RefreshThread][i].articles) >= 1

\* C30 as stated: when the pipeline returns an empty store or raises,
\* refresh_cache_worker leaves articles_by_topic, last_updated and the permanent
\* cache as they were; when it returns an article, the three are replaced together.
C30_ReplacedTogether ==
    [][WorkerEnds =>
          IF ReturnedArticles
          THEN /\ main_articles_by_topic' = articles_by_topic[RefreshThread]
               /\ last_updated' # last_updated
               /\ permanent_cache' = [state |-> "ok",
                                      store |-> articles_by_topic[RefreshThread],
                                      last_fetched |-> last_updated']
          ELSE UNCHANGED <<main_articles_by_topic, last_updated, permanent_cache>>]_vars

\* C30 amended: when the pipeline returns an empty store or raises, the three are
\* left as they were; when it returns an article, articles_by_topic and
\* last_updated are replaced, and the permanent cache gets the same store and
\* stamp if its write succeeds; if the write fails the file is as before or torn.
\* No earlier step of the worker touches any of the three.
C30_ReplacedWhenWritten ==
    [][/\ WorkerEnds =>
             IF ReturnedArticles
             THEN /\ main_articles_by_topic' = articles_by_topic[RefreshThread]
                  /\ last_updated' # last_updated
                  /\ \/ permanent_cache' = [state |-> "ok",
                                             store |-> articles_by_topic[RefreshThread],
                                             last_fetched |-> last_updated']
                     \/ permanent_cache' = permanent_cache
                     \/ permanent_cache'.state = "corrupt"
             ELSE UNCHANGED <<main_articles_by_topic, last_updated, permanent_cache>>
       /\ (caller[RefreshThread] = "worker" /\ caller'[RefreshThread] = "worker") =>
             UNCHANGED <<main_articles_by_topic, last_updated, permanent_cache>>]_vars

\* C30 witness: no permanent cache was ever written, yet last_updated carries a
\* stamp that only a worker sets: a worker returned articles, replaced the store
\* in memory and failed to open the permanent cache for writing.
C30_Witness ==
    /\ pc[RefreshThread] = "idle"
    /\ permanent_cache.state = "missing"
    /\ last_updated = "s1"
    /\ main_articles_by_topic # EmptyStore

====
